---- MODULE Spec2Model ----
(***************************************************************************)
(* Social-listening core of mobilachat: the contact-link issuer            *)
(* (processors/link_generator.py), the rate-limited auto responder         *)
(* (responders/auto_responder.py) and the Mastodon poll loop               *)
(* (collectors/mastodon_collector.py).                                     *)
(*                                                                         *)
(* Time is the wall clock datetime.now() in seconds.  None is the empty    *)
(* tuple and an optional value v is the one-element tuple <<v>>.           *)
(***************************************************************************)
EXTENDS Integers, Sequences, FiniteSets, TLC

(***************************************************************************)
(* Program constants                                                       *)
(***************************************************************************)
MAX_RESPONSES_PER_HOUR == 10
RESPONSE_DELAY == 30
MAX_RETRIES == 3
PROCESSING_DELAY == 5
link_expiry_hours == 24
TOKEN_LENGTH == 16
HISTORY_MAX == 1000
HISTORY_KEEP == 500
HourSeconds == 3600
HoursPerDay == 24
RECENT_SECONDS == 86400
NumHashtags == 3

(***************************************************************************)
(* Bounds of the model                                                     *)
(***************************************************************************)
NumTokens == 2
NumUsers == 2
NumPosts == 2
MaxValidations == 2
LinkTickHours == 8
MaxLinkHours == 32
FineTicks == 11
MaxHourJumps == 1
MaxCycles == 2
MaxDocs == 2
MaxBatch == 2
MaxTopK == 2
\* the limit and the window, in seconds, given to set_rate_limit, and the last
\* second the clock of the key store is followed to
RateLimit == 2
RateWindow == 3
MaxRateTime == 7

None == << >>
Some(v) == << v >>

TokenIds == 1 .. NumTokens
Users == 1 .. NumUsers
PostIds == 1 .. NumPosts
Tasks == {1, 2}

\* The clock starts one second and nine reply delays before a calendar-hour
\* boundary, so that a run of replies can reach the boundary.
StartTime == HourSeconds - 1 - (MAX_RESPONSES_PER_HOUR - 1) * RESPONSE_DELAY
FineHorizon == StartTime + FineTicks * RESPONSE_DELAY
MaxTime == FineHorizon + MaxHourJumps * HourSeconds + 1
MaxLinkTime == StartTime + MaxLinkHours * HourSeconds
\* The feeds of the poll loop answer at once or after RESPONSE_DELAY seconds, as
\* long as the clock stays below PollHorizon.
PollHorizon == StartTime + NumPosts * RESPONSE_DELAY

VARIABLES
    now,                 \* datetime.now()
    \* ---- LinkGenerator and its callers
    links,               \* the link_data contexts returned by generate_contact_link
    validated,           \* per token id: number of validate_token calls that returned True
    lastValidation,      \* None or <<[token, at, result]>> of the last validate_token call
    \* ---- AutoResponder
    response_count,
    last_response_time,
    response_history,
    rpc,                 \* per task: position in process_post
    rpost,               \* per task: the post of the call in progress
    \* ---- observers of the replies delivered by the channel client
    lastCall,            \* seq flips at each process_post entry; its outcome and input
    deliveredAt,         \* None or <<time of the last delivered reply>>
    observer,            \* a rolling window opened at one delivered reply
    minGap,              \* smallest time between two successive delivered replies,
                         \* counted up to RESPONSE_DELAY
    \* ---- MastodonCollector
    is_running,
    processed_posts,
    stats,
    cpc,                 \* position of the start_monitoring coroutine
    feed,                \* the loop it is in: "hashtags" or "mentions"
    hidx,                \* index of the hashtag of the for loop
    queue,               \* posts of the running _process_posts call still to visit
    cycles,              \* poll cycles finished
    \* ---- observers of the poll loop
    triaged,             \* per post id: number of _process_single_post calls
    replies,             \* per post id: number of replies delivered to it
    failed,              \* post ids whose detection or reply delivery failed
    skipped,             \* a post that has its reply was visited again and skipped
    stopped,             \* stop_monitoring has returned
    afterStop            \* what the loop started after stop_monitoring returned

VARIABLES
    \* ---- the AI engine: the arguments and results of the call in progress
    message,             \* the message argument: [str, text]; str is FALSE for a value
                         \* that is not a str
    intent,              \* None or <<the dict returned by detect_intent>>
    sentiment,           \* None or <<the dict returned by analyze_sentiment>>
    needs_escalation,    \* None or <<the result of _check_escalation_needed>>
    \* ---- VectorStore and the requests of its callers
    documents,
    embeddings,
    metadata,
    pending,             \* requests received by the API and not handled yet
    hits,                \* None or <<the search call just answered: arguments and results>>
    ingested,            \* the batches added since the last reset, in order
    \* ---- the social monitor's ComplaintDetector
    post_content,        \* the content argument: [str, text]
    complaint,           \* None or <<the dict returned by detect_complaint>>
    \* ---- the backend's ChatService, one process_chat_request
    chat_pc,             \* where process_chat_request stands
    request,             \* None or <<the ChatRequest>>
    conversation_status, \* None or <<the status of the conversation of the request>>
    db_messages,         \* the rows of the messages table, in order of commit
    ai_call,             \* None or <<how the call to the AI engine ended>>
    ai_response,         \* None or <<the dict returned by get_ai_response>>
    chat_response,       \* None or <<the ChatResponse returned>>
    \* ---- the AI engine's ResponseGenerator
    llm_pipeline,        \* TRUE when a text-generation pipeline is loaded, FALSE for None
    reply,               \* None or <<the generate_response call just answered>>
    \* ---- the backend's RedisClient.set_rate_limit on one key
    redis_time,          \* the clock of the key store, in seconds
    redis_key,           \* None or <<[value, expire_at]>>, expire_at None without expiry
    limit_pc,            \* per caller: "idle", "setex" or "incr"
    admitted             \* the calls that returned True in the current window

classifierVars == << message, intent, sentiment, needs_escalation >>
storeVars == << documents, embeddings, metadata, pending, hits, ingested >>
triageVars == << post_content, complaint >>
chatVars == << chat_pc, request, conversation_status, db_messages, ai_call, ai_response,
              chat_response >>
generatorVars == << llm_pipeline, reply >>
limiterVars == << redis_time, redis_key, limit_pc, admitted >>
serviceVars == << triageVars, chatVars, generatorVars, limiterVars >>
engineVars == << classifierVars, storeVars, serviceVars >>

linkVars == << links, validated, lastValidation >>
responderVars == << response_count, last_response_time, response_history, rpc, rpost >>
observerVars == << lastCall, deliveredAt, observer, minGap >>
collectorVars == << is_running, processed_posts, stats, cpc, feed, hidx, queue, cycles >>
pollObserverVars == << triaged, replies, failed, skipped, stopped, afterStop >>
vars == << now, linkVars, responderVars, observerVars, collectorVars, pollObserverVars,
          engineVars >>

(***************************************************************************)
(* LinkGenerator                                                           *)
(***************************************************************************)
\* A token string is described by what validate_token looks at: its length
\* and whether int(token, 16) parses it; id tells tokens apart.
MalformedTokens ==
    { [id |-> 1, len |-> 0, hex |-> FALSE],
      [id |-> 1, len |-> TOKEN_LENGTH - 1, hex |-> TRUE],
      [id |-> 1, len |-> TOKEN_LENGTH, hex |-> FALSE] }

\* sha256(user:post:now:uuid4).hexdigest()[:16]
generate_unique_token(i) == [id |-> i, len |-> TOKEN_LENGTH, hex |-> TRUE]

IssuedIds == { l.token.id : l \in links }

generate_contact_link(user, post, i) ==
    /\ i \notin IssuedIds
    /\ links' = links \cup
         {[ token |-> generate_unique_token(i),
            mastodon_user |-> user,
            post_id |-> post,
            created_at |-> now,
            expires_at |-> now + link_expiry_hours * HourSeconds,
            used |-> FALSE ]}

validate_token(token) ==
    IF token.len = 0 \/ token.len # TOKEN_LENGTH
    THEN FALSE
    ELSE token.hex

GenerateContactLink(user, post, i) ==
    /\ generate_contact_link(user, post, i)
    /\ UNCHANGED << now, validated, lastValidation, responderVars, observerVars,
                    collectorVars, pollObserverVars, engineVars >>

ValidateToken(token) ==
    /\ validated[token.id] < MaxValidations
    /\ LET result == validate_token(token) IN
         /\ lastValidation' = Some([token |-> token, at |-> now, result |-> result])
         /\ validated' = IF result
                         THEN [validated EXCEPT ![token.id] = @ + 1]
                         ELSE validated
    /\ UNCHANGED << now, links, responderVars, observerVars, collectorVars, pollObserverVars,
                    engineVars >>

LinkTick ==
    /\ now + LinkTickHours * HourSeconds <= MaxLinkTime
    /\ now' = now + LinkTickHours * HourSeconds
    /\ UNCHANGED << linkVars, responderVars, observerVars, collectorVars, pollObserverVars,
                    engineVars >>

(***************************************************************************)
(* AutoResponder                                                           *)
(***************************************************************************)
Hour(t) == (t \div HourSeconds) % HoursPerDay

\* can_respond without its check of the delay since the last reply.
can_respond_no_delay(count, last, t) ==
    count < MAX_RESPONSES_PER_HOUR

can_respond(count, last, t) ==
    IF count >= MAX_RESPONSES_PER_HOUR
    THEN FALSE
    ELSE IF last # None /\ t - last[1] < RESPONSE_DELAY
         THEN FALSE
         ELSE TRUE

\* t1 and t2 are the two successive datetime.now() reads of the method.
update_response_stats(count, t1, t2) ==
    [ count |-> IF Hour(t1) # Hour(t2) THEN 0 ELSE count + 1,
      last  |-> Some(t1) ]

save_response_history(history, entry) ==
    LET h == Append(history, entry) IN
    IF Len(h) > HISTORY_MAX
    THEN SubSeq(h, Len(h) - HISTORY_KEEP + 1, Len(h))
    ELSE h

\* The part of process_post that runs before the awaited send.
process_post_outcome(isComplaint, linkOk) ==
    IF ~ can_respond(response_count, last_response_time, now) THEN "rate_limited"
    ELSE IF ~ isComplaint THEN "not_complaint"
    ELSE IF ~ linkOk THEN "no_link"
    ELSE "sending"

process_post_begin(k, post, isComplaint, linkOk) ==
    /\ rpc[k] = "idle"
    /\ LET outcome == process_post_outcome(isComplaint, linkOk) IN
         /\ rpc' = [rpc EXCEPT ![k] = IF outcome = "sending" THEN "sending" ELSE "idle"]
         /\ rpost' = [rpost EXCEPT ![k] = IF outcome = "sending" THEN Some(post) ELSE None]
         /\ lastCall' = [seq |-> 1 - lastCall.seq, outcome |-> outcome,
                         complaint |-> isComplaint]
    /\ UNCHANGED << now, response_count, last_response_time, response_history,
                    deliveredAt, observer, minGap >>

\* The observer counts the replies delivered within one hour of the reply
\* that opened its window; the first reply after that hour opens a new window.
ObserverNext(t) ==
    IF observer.start # None /\ t - observer.start[1] < HourSeconds
    THEN [observer EXCEPT !.count = @ + 1]
    ELSE [start |-> Some(t), count |-> 1]

MinGapNext(t) ==
    IF deliveredAt # None /\ t - deliveredAt[1] < minGap
    THEN t - deliveredAt[1]
    ELSE minGap

\* The awaited status_post returns: a response (ok) or a failure.  On a
\* response the reply was delivered; process_post resumes and runs to its end.
\* t1 is the clock when the send returns, t2 the later read of line 168.
process_post_resume(k, ok, t1, t2) ==
    /\ rpc[k] = "sending"
    /\ rpc' = [rpc EXCEPT ![k] = "idle"]
    /\ rpost' = [rpost EXCEPT ![k] = None]
    /\ now' = t2
    /\ IF ok
       THEN LET updated == update_response_stats(response_count, t1, t2) IN
              /\ response_count' = updated.count
              /\ last_response_time' = updated.last
              /\ response_history' = save_response_history(response_history, rpost[k][1])
              /\ deliveredAt' = Some(t1)
              /\ observer' = ObserverNext(t1)
              /\ minGap' = MinGapNext(t1)
       ELSE UNCHANGED << response_count, last_response_time, response_history,
                         deliveredAt, observer, minGap >>
    /\ UNCHANGED lastCall

\* The clock values a second datetime.now() can read after a first read of t:
\* the same second, or the next one.  Only a next second that starts another
\* hour is told apart by the caller, so the others are left to Tick.
NextReads(t) == {t} \cup { t2 \in {t + 1} : Hour(t2) # Hour(t) /\ t2 <= MaxTime }

ProcessPost(k, isComplaint, linkOk) ==
    /\ process_post_begin(k, 1, isComplaint, linkOk)
    /\ UNCHANGED << linkVars, collectorVars, pollObserverVars, engineVars >>

SendReturns(k, ok) ==
    /\ \E t2 \in NextReads(now) : process_post_resume(k, ok, now, t2)
    /\ UNCHANGED << linkVars, collectorVars, pollObserverVars, engineVars >>

Tick ==
    /\ \E d \in {RESPONSE_DELAY, HourSeconds} :
         /\ now + d <= MaxTime
         /\ d = RESPONSE_DELAY => now + d <= FineHorizon
         /\ now' = now + d
    /\ UNCHANGED << linkVars, responderVars, observerVars, collectorVars, pollObserverVars,
                    engineVars >>

(***************************************************************************)
(* MastodonCollector                                                       *)
(***************************************************************************)
MONITOR_MENTIONS == TRUE
AUTO_RESPOND == TRUE

\* What a feed can return: a timeline lists each of its posts once, newest
\* (highest id) first.
RECURSIVE Timeline(_)
Timeline(posts) ==
    IF posts = {}
    THEN << >>
    ELSE LET newest == CHOOSE p \in posts : \A q \in posts : q <= p
         IN << newest >> \o Timeline(posts \ {newest})

FeedLists == { Timeline(posts) : posts \in SUBSET PostIds }

\* How a post of a feed looks to _process_posts when it is visited:
\*   old          created more than 24 hours ago, or without created_at
\*   unrelated    no monitored keyword or hashtag in its content
\*   malformed    content is None: _is_free_mobile_related raises
\*   neutral      related, detect_complaint finds no complaint
\*   detect_error detect_complaint fails and returns its fallback result
\*   complaint    related, detect_complaint finds a complaint
PostKinds == {"old", "unrelated", "malformed", "neutral", "detect_error", "complaint"}

\* The visit of a post without the look-up in processed_posts.
is_processed_never(post_id) == FALSE

is_processed(post_id) == post_id \in processed_posts

is_recent_post(kind) == kind # "old"

is_free_mobile_related(kind) == kind \notin {"old", "unrelated"}

is_complaint(kind) == kind = "complaint"

\* mutant: the loop goes on and the post is left for a later poll cycle
mark_processed_never(post_id) ==
    /\ queue' = Tail(queue)
    /\ UNCHANGED processed_posts

\* Lines 186-188 of _process_posts: the post is marked and the loop goes on.
mark_processed(post_id) ==
    /\ processed_posts' = processed_posts \cup {post_id}
    /\ queue' = Tail(queue)

skip_post ==
    /\ queue' = Tail(queue)
    /\ UNCHANGED processed_posts

StartMonitoring ==
    /\ cpc = "init"
    /\ is_running' = TRUE
    /\ stats' = [stats EXCEPT !.start_time = Some(now)]
    /\ feed' = "hashtags"
    /\ cpc' = "while"
    /\ UNCHANGED << now, processed_posts, hidx, queue, cycles,
                    linkVars, responderVars, observerVars, pollObserverVars, engineVars >>

\* while self.is_running of _monitor_hashtags; when it ends start_monitoring
\* goes on to _monitor_mentions.
MonitorHashtags ==
    /\ cpc = "while" /\ feed = "hashtags"
    /\ IF is_running
       THEN /\ hidx' = 1
            /\ cpc' = IF NumHashtags >= 1 THEN "fetch" ELSE "sleep"
            /\ feed' = feed
       ELSE /\ feed' = "mentions"
            /\ cpc' = IF MONITOR_MENTIONS THEN "while" ELSE "finally"
            /\ hidx' = hidx
    /\ UNCHANGED << now, is_running, processed_posts, stats, queue, cycles,
                    linkVars, responderVars, observerVars, pollObserverVars, engineVars >>

\* while self.is_running of _monitor_mentions.
MonitorMentions ==
    /\ cpc = "while" /\ feed = "mentions"
    /\ cpc' = IF is_running THEN "fetch" ELSE "finally"
    /\ UNCHANGED << now, is_running, processed_posts, stats, feed, hidx, queue, cycles,
                    linkVars, responderVars, observerVars, pollObserverVars, engineVars >>

\* finally: self.is_running = False
MonitoringEnds ==
    /\ cpc = "finally"
    /\ is_running' = FALSE
    /\ cpc' = "done"
    /\ UNCHANGED << now, processed_posts, stats, feed, hidx, queue, cycles,
                    linkVars, responderVars, observerVars, pollObserverVars, engineVars >>

\* _search_posts(hashtag) or _get_mentions(): after d seconds the feed answers
\* with posts (the empty list when the client raises), which are handed to
\* _process_posts.
FetchPosts(posts, d) ==
    /\ cpc = "fetch"
    /\ now + d <= PollHorizon
    /\ now' = now + d
    /\ queue' = posts
    /\ cpc' = "posts"
    /\ afterStop' = IF stopped THEN [afterStop EXCEPT !.fetched = TRUE] ELSE afterStop
    /\ UNCHANGED << is_running, processed_posts, stats, feed, hidx, cycles,
                    linkVars, responderVars, observerVars, triaged, replies, failed, skipped,
                    stopped, engineVars >>

\* One turn of the for loop of _process_posts, up to the end of the turn or
\* to the awaited send of AutoResponder.process_post.
ProcessNextPost(kind, linkOk) ==
    /\ cpc = "posts" /\ queue # << >>
    /\ LET post == Head(queue) IN
       IF is_processed(post) \/ ~ is_recent_post(kind) \/ ~ is_free_mobile_related(kind)
          \/ kind = "malformed"
       THEN /\ skip_post
            /\ skipped' = (skipped \/ (is_processed(post) /\ replies[post] = 1))
            /\ UNCHANGED << now, cpc, stats, responderVars, observerVars,
                            triaged, replies, failed, stopped, afterStop >>
       ELSE \* _process_single_post
            /\ triaged' = [triaged EXCEPT ![post] = @ + 1]
            /\ afterStop' = IF stopped THEN [afterStop EXCEPT !.triaged = TRUE] ELSE afterStop
            /\ UNCHANGED << replies, skipped, stopped >>
            /\ IF is_complaint(kind) /\ AUTO_RESPOND
               THEN /\ process_post_begin(1, post, TRUE, linkOk)
                    /\ IF rpc'[1] = "sending"
                       THEN /\ cpc' = "sending"
                            /\ stats' = [stats EXCEPT !.complaints_detected = @ + 1]
                            /\ UNCHANGED << processed_posts, queue, failed >>
                       ELSE /\ mark_processed(post)
                            /\ stats' = [stats EXCEPT !.complaints_detected = @ + 1,
                                                      !.total_posts_processed = @ + 1]
                            /\ failed' = failed
                            /\ cpc' = cpc
               ELSE /\ mark_processed(post)
                    /\ stats' = [stats EXCEPT
                                   !.complaints_detected = IF is_complaint(kind) THEN @ + 1 ELSE @,
                                   !.total_posts_processed = @ + 1]
                    /\ failed' = IF kind = "detect_error" THEN failed \cup {post} ELSE failed
                    /\ UNCHANGED << now, cpc, responderVars, observerVars >>
    /\ UNCHANGED << is_running, feed, hidx, cycles, linkVars, engineVars >>

\* The awaited send of process_post returns; process_post,
\* _process_single_post and the turn of _process_posts run to their end.
ReplySendReturns(ok) ==
    /\ cpc = "sending"
    /\ LET post == Head(queue) IN
         /\ \E t2 \in NextReads(now) : process_post_resume(1, ok, now, t2)
         /\ mark_processed(post)
         /\ stats' = [stats EXCEPT !.responses_sent = IF ok THEN @ + 1 ELSE @,
                                   !.total_posts_processed = @ + 1]
         /\ replies' = IF ok THEN [replies EXCEPT ![post] = @ + 1] ELSE replies
         /\ failed' = IF ok THEN failed ELSE failed \cup {post}
    /\ cpc' = "posts"
    /\ UNCHANGED << is_running, feed, hidx, cycles, linkVars, triaged, skipped, stopped,
                    afterStop, engineVars >>

\* _process_posts returns: next hashtag of the for loop, or the sleep of the cycle.
NextHashtagOrSleep ==
    /\ cpc = "posts" /\ queue = << >>
    /\ IF feed = "hashtags" /\ hidx < NumHashtags
       THEN hidx' = hidx + 1 /\ cpc' = "fetch"
       ELSE hidx' = hidx /\ cpc' = "sleep"
    /\ UNCHANGED << now, is_running, processed_posts, stats, feed, queue, cycles,
                    linkVars, responderVars, observerVars, pollObserverVars, engineVars >>

\* await asyncio.sleep(settings.PROCESSING_DELAY) returns.
SleepReturns ==
    /\ cpc = "sleep"
    /\ cycles < MaxCycles
    /\ now + PROCESSING_DELAY <= MaxTime
    /\ now' = now + PROCESSING_DELAY
    /\ cycles' = cycles + 1
    /\ cpc' = "while"
    /\ UNCHANGED << is_running, processed_posts, stats, feed, hidx, queue,
                    linkVars, responderVars, observerVars, pollObserverVars, engineVars >>

\* stop_monitoring is run by the event loop while start_monitoring is
\* suspended: at the awaited send or at the sleep of a cycle.
StopMonitoring ==
    /\ cpc \in {"sending", "sleep"}
    /\ ~ stopped
    /\ is_running' = FALSE
    /\ stopped' = TRUE
    /\ UNCHANGED << now, processed_posts, stats, cpc, feed, hidx, queue, cycles,
                    linkVars, responderVars, observerVars, triaged, replies, failed, skipped,
                    afterStop, engineVars >>

(***************************************************************************)
(* Text: a str is the sequence of its characters                           *)
(***************************************************************************)
UpperLetters ==
    << "A", "B", "C", "D", "E", "F", "G", "H", "I", "J", "K", "L", "M",
       "N", "O", "P", "Q", "R", "S", "T", "U", "V", "W", "X", "Y", "Z",
       "À", "Â", "Ç", "É", "È", "Ê", "Ë", "Î", "Ï", "Ô", "Ù", "Û", "Ü" >>
LowerLetters ==
    << "a", "b", "c", "d", "e", "f", "g", "h", "i", "j", "k", "l", "m",
       "n", "o", "p", "q", "r", "s", "t", "u", "v", "w", "x", "y", "z",
       "à", "â", "ç", "é", "è", "ê", "ë", "î", "ï", "ô", "ù", "û", "ü" >>

IsUpper(c) == \E i \in 1 .. Len(UpperLetters) : UpperLetters[i] = c

\* str.lower()
LowerChar(c) ==
    IF IsUpper(c)
    THEN LowerLetters[CHOOSE i \in 1 .. Len(UpperLetters) : UpperLetters[i] = c]
    ELSE c

Lower(s) == [i \in 1 .. Len(s) |-> LowerChar(s[i])]

\* sub in s, at or after position from
ContainsFrom(sub, s, from) ==
    LET needle == sub
        text == s
        n == Len(needle)
    IN \E i \in from .. (Len(text) - n + 1) : SubSeq(text, i, i + n - 1) = needle

\* sub in s
Contains(sub, s) == ContainsFrom(sub, s, 1)

(***************************************************************************)
(* ResponseGenerator._check_escalation_needed                              *)
(***************************************************************************)
\* Scores and confidences are counted in hundredths.
ESCALATION_SCORE == -70
ESCALATION_CONFIDENCE == 50

escalation_keywords ==
    <<
    <<"r","é","m","u","n","é","r","a","t","i","o","n">>, <<"p","l","a","i","n","t","e">>,
    <<"r","é","c","l","a","m","a","t","i","o","n">>, <<"j","u","r","i","d","i","q","u","e">>,
    <<"a","v","o","c","a","t">>, <<"m","é","d","i","a","t","e","u","r">>,
    <<"A","R","C","E","P">>,
    <<"r","é","s","i","l","i","a","t","i","o","n"," ","i","m","m","é","d","i","a","t","e">>,
    <<"d","é","d","o","m","m","a","g","e","m","e","n","t">> >>

\* dict.get(key, default) on a dict given as a record
Get(dict, key, default) == IF key \in DOMAIN dict THEN dict[key] ELSE default

check_escalation_needed(msg, intent_, sentiment_) ==
    LET message_lower == Lower(msg) IN
    IF \E k \in 1 .. Len(escalation_keywords) : Contains(escalation_keywords[k], message_lower)
    THEN TRUE
    ELSE IF Get(sentiment_, "score", 0) < ESCALATION_SCORE
    THEN TRUE
    ELSE IF /\ Get(intent_, "category", "none") \in {"resiliation", "technique"}
            /\ Get(intent_, "confidence", 0) < ESCALATION_CONFIDENCE
    THEN TRUE
    ELSE FALSE

CheckEscalationNeeded ==
    /\ needs_escalation = None
    /\ message.str /\ intent # None /\ sentiment # None
    /\ needs_escalation' = Some(check_escalation_needed(message.text, intent[1], sentiment[1]))
    /\ UNCHANGED << message, intent, sentiment, storeVars >>
    /\ UNCHANGED << now, linkVars, responderVars, observerVars, collectorVars,
                    pollObserverVars, serviceVars >>

(***************************************************************************)
(* VectorStore                                                             *)
(***************************************************************************)
\* Similarities are counted in hundredths, the coordinates of an embedding in
\* tenths, so that the dot product of two embeddings is their similarity.
RAG_SIMILARITY_THRESHOLD == 70
RAG_TOP_K == 5

\* The texts the embedding model is given and the vectors it returns for them.
Embedding ==
    [ d1 |-> << 10, 0 >>, d2 |-> << 8, 6 >>, d3 |-> << 6, 8 >>,
      q1 |-> << 10, 0 >>, q2 |-> << 6, 8 >> ]

encode(texts) == [i \in 1 .. Len(texts) |-> Embedding[texts[i]]]

Dot(u, v) == u[1] * v[1] + u[2] * v[2]

\* The documents the document processor can hand over, in the order it reads
\* them: the type is faq, documentation or conversation, and a FAQ carries the
\* category of its file.
DocPool ==
    << [content |-> "d1", metadata |-> [type |-> "faq", category |-> "technique"]],
       [content |-> "d2", metadata |-> [type |-> "documentation"]],
       [content |-> "d3", metadata |-> [type |-> "faq", category |-> "facturation"]] >>

RECURSIVE Listed(_)
Listed(chosen) ==
    IF chosen = {}
    THEN << >>
    ELSE LET first == CHOOSE i \in chosen : \A j \in chosen : i <= j
         IN << DocPool[first] >> \o Listed(chosen \ {first})

\* A batch of add_documents: up to MaxBatch documents of the pool.
Batches ==
    { Listed(chosen) : chosen \in { c \in SUBSET DOMAIN DocPool : Cardinality(c) <= MaxBatch } }

\* The conversations handed over in one request: none, or one document.
ConvBatches == { b \in Batches : Len(b) <= 1 }

Queries == {"q1", "q2"}
TopKs == {None} \cup { Some(k) : k \in 1 .. MaxTopK }
Filters == {None} \cup { Some([type |-> t]) : t \in {"faq", "documentation"} }

Min(a, b) == IF a <= b THEN a ELSE b

\* add_documents left after its first extend (line 55).
add_documents_partial(docs, embs, metas, batch, encodeOk) ==
    [ documents |-> docs \o [i \in 1 .. Len(batch) |-> batch[i].content],
      embeddings |-> embs, metadata |-> metas, result |-> TRUE ]

\* add_documents: the new lists and the value returned.  encodeOk is false
\* when the embedding model raises.
add_documents(docs, embs, metas, batch, encodeOk) ==
    IF batch = << >> \/ ~ encodeOk
    THEN [documents |-> docs, embeddings |-> embs, metadata |-> metas, result |-> FALSE]
    ELSE LET texts == [i \in 1 .. Len(batch) |-> batch[i].content]
             metadatas == [i \in 1 .. Len(batch) |-> batch[i].metadata]
         IN [ documents |-> docs \o texts,
              embeddings |-> embs \o encode(texts),
              metadata |-> metas \o metadatas,
              result |-> TRUE ]

\* np.argsort(similarities)[::-1]: the indices by descending similarity.  The
\* order numpy leaves equal similarities in is not specified; no two texts of
\* Embedding are equally similar to a query.
RECURSIVE Descending(_, _)
Descending(similarities, left) ==
    IF left = {}
    THEN << >>
    ELSE LET best == CHOOSE i \in left :
                        \A j \in left : \/ similarities[i] > similarities[j]
                                         \/ (similarities[i] = similarities[j] /\ i >= j)
         IN << best >> \o Descending(similarities, left \ {best})

argsort_reversed(similarities) == Descending(similarities, DOMAIN similarities)

\* search without the test of line 92.
above_threshold_always(similarity) == TRUE

above_threshold(similarity) == similarity >= RAG_SIMILARITY_THRESHOLD

matches_filter(doc_metadata, filter_metadata) ==
    \A k \in DOMAIN filter_metadata : Get(doc_metadata, k, "") = filter_metadata[k]

search(docs, embs, metas, query, top_k, filter_metadata, encodeOk) ==
    IF docs = << >> \/ ~ encodeOk
    THEN << >>
    ELSE LET k == IF top_k = None THEN RAG_TOP_K ELSE top_k[1]
             query_embedding == encode(<< query >>)[1]
             similarities == [i \in 1 .. Len(embs) |-> Dot(query_embedding, embs[i])]
             order == argsort_reversed(similarities)
             cut == SubSeq(order, 1, Min(k, Len(order)))
             kept(idx) ==
                 /\ above_threshold(similarities[idx])
                 /\ filter_metadata # None => matches_filter(metas[idx], filter_metadata[1])
             selected == SelectSeq(cut, kept)
         IN [ i \in 1 .. Len(selected) |->
                [ content |-> docs[selected[i]],
                  metadata |-> metas[selected[i]],
                  distance |-> 100 - similarities[selected[i]],
                  similarity |-> similarities[selected[i]] ] ]

Similarities(query) ==
    [i \in 1 .. Len(embeddings) |-> Dot(encode(<< query >>)[1], embeddings[i])]

\* A client request reaches the API while others may still wait to be handled.
ReceiveRequest(kind) ==
    /\ kind \notin pending
    /\ pending' = pending \cup {kind}
    /\ UNCHANGED << documents, embeddings, metadata, hits, ingested, classifierVars >>
    /\ UNCHANGED << now, linkVars, responderVars, observerVars, collectorVars,
                    pollObserverVars, serviceVars >>

\* The handler of /api/ingest-documents runs to its end on the event loop:
\* reset_collection when asked, add_documents of the processed documents (the
\* handler raises when it fails), then add_documents of the conversations.
\* encodeOk is false when the embedding model raises during the request.
IngestDocuments(reset, batch, conv_batch, encodeOk) ==
    /\ "ingest" \in pending
    /\ pending' = pending \ {"ingest"}
    /\ LET base == [ documents |-> IF reset THEN << >> ELSE documents,
                     embeddings |-> IF reset THEN << >> ELSE embeddings,
                     metadata |-> IF reset THEN << >> ELSE metadata,
                     result |-> TRUE ]
           first == IF batch # << >>
                    THEN add_documents(base.documents, base.embeddings, base.metadata,
                                       batch, encodeOk)
                    ELSE base
           second == IF first.result /\ conv_batch # << >>
                     THEN add_documents(first.documents, first.embeddings, first.metadata,
                                        conv_batch, encodeOk)
                     ELSE first
       IN /\ Len(base.documents) + Len(batch) + Len(conv_batch) <= MaxDocs
          \* a document of the pool is handed over once between two resets
          /\ \A i \in DOMAIN (batch \o conv_batch), j \in DOMAIN base.documents :
                (batch \o conv_batch)[i].content # base.documents[j]
          /\ \A i \in DOMAIN batch, j \in DOMAIN conv_batch : batch[i] # conv_batch[j]
          /\ documents' = second.documents
          /\ embeddings' = second.embeddings
          /\ metadata' = second.metadata
          /\ ingested' = (IF reset THEN << >> ELSE ingested)
                             \o (IF batch # << >> /\ first.result THEN << batch >> ELSE << >>)
                             \o (IF first.result /\ conv_batch # << >> /\ second.result
                                 THEN << conv_batch >> ELSE << >>)
    /\ hits' = None
    /\ UNCHANGED classifierVars
    /\ UNCHANGED << now, linkVars, responderVars, observerVars, collectorVars,
                    pollObserverVars, serviceVars >>

\* The handler of /api/reset-vector-store: reset_collection.
ResetVectorStore ==
    /\ "reset" \in pending
    /\ pending' = pending \ {"reset"}
    /\ documents' = << >>
    /\ embeddings' = << >>
    /\ metadata' = << >>
    /\ ingested' = << >>
    /\ hits' = None
    /\ UNCHANGED classifierVars
    /\ UNCHANGED << now, linkVars, responderVars, observerVars, collectorVars,
                    pollObserverVars, serviceVars >>

\* A handler that calls search (/api/search, or /api/generate through
\* get_relevant_context) runs to its end on the event loop.
Search(query, top_k, filter_metadata, encodeOk) ==
    /\ "search" \in pending
    /\ pending' = pending \ {"search"}
    /\ hits' = Some([ query |-> query, top_k |-> top_k, filter |-> filter_metadata,
                      results |-> search(documents, embeddings, metadata, query, top_k,
                                         filter_metadata, encodeOk),
                      encoded |-> encodeOk,
                      seen |-> << Len(documents), Len(embeddings), Len(metadata) >>,
                      during |-> "ingest" \in pending \/ "reset" \in pending ])
    /\ UNCHANGED << documents, embeddings, metadata, ingested, classifierVars >>
    /\ UNCHANGED << now, linkVars, responderVars, observerVars, collectorVars,
                    pollObserverVars, serviceVars >>

(***************************************************************************)
(* Numbers                                                                 *)
(***************************************************************************)
\* The scores of the classifiers are Python floats.  They are kept here as exact
\* fractions << numerator, denominator >> in lowest terms with a positive
\* denominator.
RECURSIVE GCD(_, _)
GCD(a, b) == IF b = 0 THEN a ELSE GCD(b, a % b)
Frac(n, d) ==
    LET g == GCD(IF n < 0 THEN 0 - n ELSE n, d)
    IN << n \div g, d \div g >>
FracAdd(a, b) == Frac(a[1] * b[2] + b[1] * a[2], a[2] * b[2])
FracMul(a, b) == Frac(a[1] * b[1], a[2] * b[2])
FracLess(a, b) == a[1] * b[2] < b[1] * a[2]
FracLeq(a, b) == a[1] * b[2] <= b[1] * a[2]
FracMin(a, b) == IF FracLess(b, a) THEN b ELSE a

\* F(v), where the value v is worked out once
Let(v, F(_)) == CHOOSE r \in { F(x) : x \in {v} } : TRUE

(***************************************************************************)
(* str.split and re.search                                                 *)
(***************************************************************************)
Whitespace == { " ", "\t", "\n", "\r" }

\* len(s.split()): the number of maximal runs of characters that are not whitespace
WordCount(s) ==
    LET text == s IN
    Cardinality({ i \in 1 .. Len(text) :
                    text[i] \notin Whitespace /\ (i = 1 \/ text[i - 1] \in Whitespace) })

\* s.count(sub): the occurrences counted from the left without overlap
RECURSIVE CountFrom(_, _, _)
CountFrom(sub, s, from) ==
    LET needle == sub
        text == s
        n == Len(needle)
        at == { i \in from .. Len(text) - n + 1 : SubSeq(text, i, i + n - 1) = needle }
    IN IF at = {} THEN 0
       ELSE LET i == CHOOSE x \in at : \A y \in at : x <= y
            IN 1 + CountFrom(needle, text, i + n)
Count(sub, s) == CountFrom(sub, s, 1)

\* re.search of a pattern  p1.*p2.* ... pn  whose parts are literal text: the parts
\* occur in this order without overlapping, and no newline lies between two of them.
RECURSIVE re_search_from(_, _, _, _)
re_search_from(parts, s, from, first) ==
    IF parts = << >> THEN TRUE
    ELSE LET p == Head(parts)
             rest == Tail(parts)
             text == s
             n == Len(p)
         IN \E i \in from .. Len(text) - n + 1 :
               /\ SubSeq(text, i, i + n - 1) = p
               /\ first \/ \A j \in from .. i - 1 : text[j] # "\n"
               /\ re_search_from(rest, text, i + n, FALSE)
re_search(parts, s) == re_search_from(parts, s, 1, TRUE)

(***************************************************************************)
(* IntentDetector                                                          *)
(***************************************************************************)
\* The intents in the order of the dict intent_patterns.
intent_names == << "facturation", "technique", "forfait", "resiliation", "livraison", "commande" >>

\* A pattern a.*b is written as the sequence of its literal parts << a, b >>.
intent_patterns ==
    [    facturation |-> [
        keywords |-> <<
            <<"f","a","c","t","u","r","e">>, <<"f","a","c","t","u","r","a","t","i","o","n">>,
            <<"p","a","i","e","m","e","n","t">>,
            <<"p","r","é","l","è","v","e","m","e","n","t">>, <<"d","é","b","i","t">>,
            <<"c","o","û","t">>, <<"p","r","i","x">>, <<"t","a","r","i","f">>,
            <<"m","o","n","t","a","n","t">>, <<"e","u","r","o","s">>, <<"€">>,
            <<"b","i","l","l","i","n","g">>,
            <<"c","o","n","s","o","m","m","a","t","i","o","n">>,
            <<"d","é","p","a","s","s","e","m","e","n","t">>, <<"f","o","r","f","a","i","t">>,
            <<"d","a","t","a">>, <<"g","o">>, <<"m","o">>, <<"s","m","s">>,
            <<"a","p","p","e","l">>, <<"m","i","n","u","t","e">>,
            <<"i","n","t","e","r","n","e","t">>, <<"4","g">>, <<"5","g">> >>,
        patterns |-> <<
            << <<"c","o","m","b","i","e","n">>, <<"c","o","û","t">> >>,
            << <<"p","r","i","x">>, <<"f","o","r","f","a","i","t">> >>,
            << <<"f","a","c","t","u","r","e">>, <<"m","o","n","t","a","n","t">> >>,
            << <<"d","é","p","a","s","s","e","m","e","n","t">>, <<"d","a","t","a">> >>,
            << <<"c","o","n","s","o","m","m","a","t","i","o","n">>, <<"i","n","t","e","r","n","e","t">> >> >> ],
    technique |-> [
        keywords |-> <<
            <<"p","r","o","b","l","è","m","e">>, <<"b","u","g">>, <<"e","r","r","e","u","r">>,
            <<"n","e"," ","m","a","r","c","h","e"," ","p","a","s">>,
            <<"f","o","n","c","t","i","o","n","n","e"," ","p","a","s">>,
            <<"c","o","n","n","e","x","i","o","n">>, <<"r","é","s","e","a","u">>,
            <<"s","i","g","n","a","l">>, <<"4","g">>, <<"5","g">>, <<"w","i","f","i">>,
            <<"b","l","u","e","t","o","o","t","h">>, <<"a","p","p","a","r","e","i","l">>,
            <<"t","é","l","é","p","h","o","n","e">>,
            <<"s","m","a","r","t","p","h","o","n","e">>, <<"s","i","m">>,
            <<"c","a","r","t","e"," ","s","i","m">>, <<"d","é","p","a","n","n","a","g","e">>,
            <<"r","e","d","é","m","a","r","r","a","g","e">>, <<"r","e","s","e","t">>,
            <<"p","a","r","a","m","è","t","r","e","s">>,
            <<"c","o","n","f","i","g","u","r","a","t","i","o","n">> >>,
        patterns |-> <<
            << <<"n","e">>, <<"f","o","n","c","t","i","o","n","n","e">>, <<"p","a","s">> >>,
            << <<"p","r","o","b","l","è","m","e">>, <<"c","o","n","n","e","x","i","o","n">> >>,
            << <<"e","r","r","e","u","r">>, <<"r","é","s","e","a","u">> >>,
            << <<"s","i","g","n","a","l">>, <<"f","a","i","b","l","e">> >>,
            << <<"w","i","f","i">>, <<"m","a","r","c","h","e">>, <<"p","a","s">> >> >> ],
    forfait |-> [
        keywords |-> <<
            <<"f","o","r","f","a","i","t">>, <<"o","f","f","r","e">>, <<"t","a","r","i","f">>,
            <<"a","b","o","n","n","e","m","e","n","t">>,
            <<"s","o","u","s","c","r","i","p","t","i","o","n">>,
            <<"c","h","a","n","g","e","r">>, <<"m","o","d","i","f","i","e","r">>,
            <<"u","p","g","r","a","d","e">>, <<"d","o","w","n","g","r","a","d","e">>,
            <<"m","i","g","r","a","t","i","o","n">>, <<"n","o","u","v","e","a","u">>,
            <<"n","o","u","v","e","l","l","e">>, <<"o","f","f","r","e">>,
            <<"p","r","o","m","o">>, <<"r","é","d","u","c","t","i","o","n">>,
            <<"i","l","l","i","m","i","t","é">>, <<"d","a","t","a">>, <<"s","m","s">>,
            <<"a","p","p","e","l","s">>, <<"i","n","t","e","r","n","e","t">> >>,
        patterns |-> <<
            << <<"c","h","a","n","g","e","r">>, <<"f","o","r","f","a","i","t">> >>,
            << <<"n","o","u","v","e","a","u">>, <<"f","o","r","f","a","i","t">> >>,
            << <<"o","f","f","r","e">>, <<"d","i","s","p","o","n","i","b","l","e">> >>,
            << <<"m","i","g","r","a","t","i","o","n">>, <<"f","o","r","f","a","i","t">> >>,
            << <<"t","a","r","i","f">>, <<"f","o","r","f","a","i","t">> >> >> ],
    resiliation |-> [
        keywords |-> <<
            <<"r","é","s","i","l","i","e","r">>,
            <<"r","é","s","i","l","i","a","t","i","o","n">>, <<"a","n","n","u","l","e","r">>,
            <<"a","r","r","ê","t","e","r">>, <<"s","t","o","p","p","e","r">>,
            <<"q","u","i","t","t","e","r">>, <<"p","a","r","t","i","r">>,
            <<"c","h","a","n","g","e","r">>, <<"o","p","é","r","a","t","e","u","r">>,
            <<"c","o","n","c","u","r","r","e","n","t">>, <<"d","é","p","a","r","t">>,
            <<"f","i","n">>, <<"t","e","r","m","i","n","e","r">>,
            <<"c","l","ô","t","u","r","e","r">>, <<"f","e","r","m","e","r">> >>,
        patterns |-> <<
            << <<"r","é","s","i","l","i","e","r">>, <<"c","o","n","t","r","a","t">> >>,
            << <<"a","r","r","ê","t","e","r">>, <<"f","o","r","f","a","i","t">> >>,
            << <<"c","h","a","n","g","e","r">>, <<"o","p","é","r","a","t","e","u","r">> >>,
            << <<"p","a","r","t","i","r">>, <<"f","r","e","e">> >>,
            << <<"a","n","n","u","l","e","r">>, <<"a","b","o","n","n","e","m","e","n","t">> >> >> ],
    livraison |-> [
        keywords |-> <<
            <<"l","i","v","r","a","i","s","o","n">>, <<"l","i","v","r","e","r">>,
            <<"e","x","p","é","d","i","t","i","o","n">>, <<"c","o","l","i","s">>,
            <<"c","o","m","m","a","n","d","e">>, <<"s","u","i","v","i">>,
            <<"t","r","a","c","k","i","n","g">>, <<"r","é","c","e","p","t","i","o","n">>,
            <<"r","e","ç","u">>, <<"a","r","r","i","v","é">>, <<"r","e","t","a","r","d">>,
            <<"e","n"," ","r","e","t","a","r","d">>, <<"p","e","r","d","u">>,
            <<"v","o","l","é">>, <<"v","o","l">> >>,
        patterns |-> <<
            << <<"l","i","v","r","a","i","s","o","n">>, <<"c","o","m","m","a","n","d","e">> >>,
            << <<"s","u","i","v","i">>, <<"c","o","l","i","s">> >>,
            << <<"r","e","t","a","r","d">>, <<"l","i","v","r","a","i","s","o","n">> >>,
            << <<"c","o","l","i","s">>, <<"p","e","r","d","u">> >> >> ],
    commande |-> [
        keywords |-> <<
            <<"c","o","m","m","a","n","d","e","r">>, <<"c","o","m","m","a","n","d","e">>,
            <<"a","c","h","a","t">>, <<"a","c","h","e","t","e","r">>,
            <<"s","o","u","s","c","r","i","r","e">>,
            <<"s","o","u","s","c","r","i","p","t","i","o","n">>,
            <<"n","o","u","v","e","a","u">>, <<"n","o","u","v","e","l","l","e">>,
            <<"s","i","m">>, <<"c","a","r","t","e">>, <<"t","é","l","é","p","h","o","n","e">>,
            <<"s","m","a","r","t","p","h","o","n","e">>, <<"a","p","p","a","r","e","i","l">>,
            <<"é","q","u","i","p","e","m","e","n","t">> >>,
        patterns |-> <<
            << <<"c","o","m","m","a","n","d","e","r">>, <<"f","o","r","f","a","i","t">> >>,
            << <<"n","o","u","v","e","a","u">>, <<"a","b","o","n","n","e","m","e","n","t">> >>,
            << <<"s","o","u","s","c","r","i","r","e">>, <<"o","f","f","r","e">> >>,
            << <<"a","c","h","e","t","e","r">>, <<"s","i","m">> >> >> ] ]

default_intent == "general"
CONFIDENCE_THRESHOLD == Frac(3, 10)
KEYWORD_WEIGHT == Frac(7, 10)
PATTERN_WEIGHT == Frac(3, 10)
SHORT_MESSAGE_WORDS == 10
SHORT_MESSAGE_BONUS == Frac(12, 10)

\* the final score before the cap min(final_score, 1.0) of line 189
calculate_intent_score_uncapped(message_lower, config) ==
    LET msg == message_lower
        keywords == config.keywords
        keyword_matches ==
            Cardinality({ k \in DOMAIN keywords : Contains(keywords[k], msg) })
        keyword_score ==
            IF keywords # << >>
            THEN FracMul(Frac(keyword_matches, Len(keywords)), KEYWORD_WEIGHT)
            ELSE Frac(0, 1)
        patterns == config.patterns
        pattern_matches ==
            Cardinality({ p \in DOMAIN patterns : re_search(patterns[p], msg) })
        pattern_score ==
            IF patterns # << >>
            THEN FracMul(Frac(pattern_matches, Len(patterns)), PATTERN_WEIGHT)
            ELSE Frac(0, 1)
        final_score == FracAdd(keyword_score, pattern_score)
    IN IF WordCount(msg) < SHORT_MESSAGE_WORDS /\ keyword_matches > 0
       THEN FracMul(final_score, SHORT_MESSAGE_BONUS)
       ELSE final_score

calculate_intent_score(msg, config) ==
    FracMin(calculate_intent_score_uncapped(msg, config), Frac(1, 1))

\* the score of every intent for a lowercased message
intent_scores(message_lower) ==
    [ i \in DOMAIN intent_names |->
        calculate_intent_score(message_lower, intent_patterns[intent_names[i]]) ]

\* mutant: the last intent of the dict that has the greatest score
best_of_last(scores) ==
    CHOOSE i \in DOMAIN scores :
        /\ \A j \in DOMAIN scores : FracLeq(scores[j], scores[i])
        /\ \A j \in i + 1 .. Len(scores) : FracLess(scores[j], scores[i])

\* max(intent_scores, key=intent_scores.get): the first intent of the dict that
\* has the greatest score
best_of(scores) ==
    CHOOSE i \in DOMAIN scores :
        /\ \A j \in DOMAIN scores : FracLeq(scores[j], scores[i])
        /\ \A j \in 1 .. i - 1 : FracLess(scores[j], scores[i])

\* mutant: detect_intent without the two caps min(..., 1.0) (lines 133 and 189)
detect_intent_uncapped(msg) ==
    IF ~ msg.str
    THEN [category |-> default_intent, confidence |-> Frac(0, 1)]
    ELSE LET Selected(scores) ==
                 LET best == best_of(scores)
                     below == FracLess(scores[best], CONFIDENCE_THRESHOLD)
                     best_intent == IF below THEN default_intent ELSE intent_names[best]
                     best_score == IF below THEN Frac(1, 2) ELSE scores[best]
                 IN [category |-> best_intent, confidence |-> best_score]
             Detected(message_lower) ==
                 Let([ i \in DOMAIN intent_names |->
                         calculate_intent_score_uncapped(message_lower,
                                                         intent_patterns[intent_names[i]]) ],
                     Selected)
         IN Let(Lower(msg.text), Detected)

\* message.lower() raises on a value that is not a str, and the except branch
\* answers.  The fields subcategory and keywords_found are not modelled.
detect_intent(msg) ==
    IF ~ msg.str
    THEN [category |-> default_intent, confidence |-> Frac(0, 1)]
    ELSE LET Selected(scores) ==
                 LET best == best_of(scores)
                     below == FracLess(scores[best], CONFIDENCE_THRESHOLD)
                     best_intent == IF below THEN default_intent ELSE intent_names[best]
                     best_score == IF below THEN Frac(1, 2) ELSE scores[best]
                 IN [category |-> best_intent,
                     confidence |-> FracMin(best_score, Frac(1, 1))]
             Detected(message_lower) == Let(intent_scores(message_lower), Selected)
         IN Let(Lower(msg.text), Detected)

(***************************************************************************)
(* SentimentAnalyzer                                                       *)
(***************************************************************************)
\* An emoji is one character, named by its code point.  patterns.get("emojis", [])
\* of the neutral patterns, which have no emojis, is the empty list.
positive_patterns ==
    [ keywords |-> <<
        <<"m","e","r","c","i">>, <<"p","a","r","f","a","i","t">>,
        <<"e","x","c","e","l","l","e","n","t">>, <<"s","u","p","e","r">>,
        <<"g","é","n","i","a","l">>, <<"f","a","n","t","a","s","t","i","q","u","e">>,
        <<"b","i","e","n">>, <<"b","o","n">>, <<"s","a","t","i","s","f","a","i","t">>,
        <<"c","o","n","t","e","n","t">>, <<"h","e","u","r","e","u","x">>, <<"r","a","v","i">>,
        <<"a","p","p","r","é","c","i","e","r">>, <<"a","i","m","e","r">>,
        <<"a","d","o","r","e","r">>, <<"r","e","c","o","m","m","a","n","d","é">>,
        <<"c","o","n","s","e","i","l","l","e","r">>, <<"b","r","a","v","o">>,
        <<"f","é","l","i","c","i","t","a","t","i","o","n","s">>,
        <<"c","h","a","p","e","a","u">>, <<"t","o","p">>, <<"c","o","o","l">>,
        <<"s","y","m","p","a">> >>,
      emojis |-> <<
        <<"U+1F60A">>, <<"U+1F604">>, <<"U+1F603">>, <<"U+1F601">>, <<"U+1F60D">>,
        <<"U+1F970">>, <<"U+1F618">>, <<"U+1F44D">>, <<"U+1F44F">>, <<"U+1F389">>,
        <<"U+2705">> >>,
      patterns |-> <<
        << <<"t","r","è","s">>, <<"b","i","e","n">> >>,
        << <<"p","a","r","f","a","i","t">>, <<"s","e","r","v","i","c","e">> >>,
        << <<"e","x","c","e","l","l","e","n","t">>, <<"t","r","a","v","a","i","l">> >>,
        << <<"j","e">>, <<"s","u","i","s">>, <<"s","a","t","i","s","f","a","i","t">> >>,
        << <<"m","e","r","c","i">>, <<"b","e","a","u","c","o","u","p">> >> >> ]

negative_patterns ==
    [ keywords |-> <<
        <<"n","u","l">>, <<"n","u","l","l","e">>, <<"h","o","r","r","i","b","l","e">>,
        <<"t","e","r","r","i","b","l","e">>, <<"c","a","t","a","s","t","r","o","p","h","e">>,
        <<"d","é","s","a","s","t","r","e">>, <<"m","a","u","v","a","i","s">>, <<"m","a","l">>,
        <<"m","a","l","h","e","u","r","e","u","x">>, <<"d","é","ç","u">>,
        <<"d","é","c","e","v","a","n","t">>, <<"f","r","u","s","t","r","a","n","t">>,
        <<"é","n","e","r","v","a","n","t">>, <<"a","g","a","c","é">>, <<"f","â","c","h","é">>,
        <<"e","n"," ","c","o","l","è","r","e">>, <<"f","u","r","i","e","u","x">>,
        <<"e","x","a","s","p","é","r","é">>, <<"d","é","g","o","û","t","é">>,
        <<"r","é","v","o","l","t","é">>, <<"s","c","a","n","d","a","l","i","s","é">>,
        <<"i","n","d","i","g","n","é">>, <<"o","u","t","r","é">>,
        <<"p","r","o","b","l","è","m","e">>, <<"b","u","g">>, <<"e","r","r","e","u","r">>,
        <<"d","y","s","f","o","n","c","t","i","o","n","n","e","m","e","n","t">>,
        <<"p","a","n","n","e">> >>,
      emojis |-> <<
        <<"U+1F620">>, <<"U+1F621">>, <<"U+1F92C">>, <<"U+1F624">>, <<"U+1F61E">>,
        <<"U+1F622">>, <<"U+1F62D">>, <<"U+1F44E">>, <<"U+274C">>, <<"U+1F494">>,
        <<"U+1F612">> >>,
      patterns |-> <<
        << <<"j","e">>, <<"s","u","i","s">>, <<"d","é","ç","u">> >>,
        << <<"c","'","e","s","t">>, <<"n","u","l">> >>,
        << <<"ç","a">>, <<"m","a","r","c","h","e">>, <<"p","a","s">> >>,
        << <<"p","r","o","b","l","è","m","e">>, <<"g","r","a","v","e">> >>,
        << <<"s","e","r","v","i","c","e">>, <<"c","l","i","e","n","t">>, <<"n","u","l">> >> >> ]

neutral_patterns ==
    [ keywords |-> <<
        <<"q","u","e","s","t","i","o","n">>, <<"d","e","m","a","n","d","e">>,
        <<"i","n","f","o","r","m","a","t","i","o","n">>,
        <<"r","e","n","s","e","i","g","n","e","m","e","n","t">>,
        <<"c","o","m","m","e","n","t">>, <<"p","o","u","r","q","u","o","i">>,
        <<"q","u","a","n","d">>, <<"o","ù">>, <<"c","o","m","b","i","e","n">>,
        <<"b","e","s","o","i","n">>, <<"v","o","u","l","o","i","r">>,
        <<"s","o","u","h","a","i","t","e","r">>, <<"d","é","s","i","r","e","r">> >>,
      emojis |-> << >>,
      patterns |-> <<
        << <<"j","'","a","i">>, <<"u","n","e">>, <<"q","u","e","s","t","i","o","n">> >>,
        << <<"j","e">>, <<"v","o","u","d","r","a","i","s">>, <<"s","a","v","o","i","r">> >>,
        << <<"p","o","u","v","e","z">>, <<"v","o","u","s">>, <<"m","'","a","i","d","e","r">> >>,
        << <<"j","'","a","i","m","e","r","a","i","s">>, <<"c","o","n","n","a","î","t","r","e">> >> >> ]

intensifiers ==
    [ positive |-> <<
        <<"t","r","è","s">>, <<"v","r","a","i","m","e","n","t">>,
        <<"e","x","t","r","ê","m","e","m","e","n","t">>,
        <<"t","o","t","a","l","e","m","e","n","t">>,
        <<"c","o","m","p","l","è","t","e","m","e","n","t">> >>,
      negative |-> <<
        <<"t","r","è","s">>, <<"v","r","a","i","m","e","n","t">>,
        <<"e","x","t","r","ê","m","e","m","e","n","t">>,
        <<"t","o","t","a","l","e","m","e","n","t">>,
        <<"c","o","m","p","l","è","t","e","m","e","n","t">>,
        <<"a","b","s","o","l","u","m","e","n","t">> >> ]

negations ==
    <<
        <<"p","a","s">>, <<"n","e">>, <<"n","'">>, <<"j","a","m","a","i","s">>,
        <<"r","i","e","n">>, <<"a","u","c","u","n">>, <<"n","u","l">> >>

urgency_keywords ==
    <<
        <<"u","r","g","e","n","t">>, <<"u","r","g","e","n","c","e">>,
        <<"i","m","m","é","d","i","a","t">>,
        <<"t","o","u","t"," ","d","e"," ","s","u","i","t","e">>,
        <<"r","a","p","i","d","e","m","e","n","t">>, <<"v","i","t","e">>,
        <<"d","é","p","ê","c","h","e">>, <<"p","r","e","s","s","é">>,
        <<"c","r","i","t","i","q","u","e">>, <<"g","r","a","v","e">>,
        <<"i","m","p","o","r","t","a","n","t">> >>

\* the sum of f over the members of a finite set
RECURSIVE SumOver(_, _)
SumOver(set, f) ==
    IF set = {}
    THEN Frac(0, 1)
    ELSE LET x == CHOOSE y \in set : TRUE
         IN FracAdd(f[x], SumOver(set \ {x}, f))

calculate_sentiment_score(message_lower, patterns) ==
    LET msg == message_lower
        keywords == patterns.keywords
        KeywordWeight == [k \in DOMAIN keywords |-> Frac(1, WordCount(keywords[k]))]
        emojis == patterns.emojis
        regex_patterns == patterns.patterns
        found == { k \in DOMAIN keywords : Contains(keywords[k], msg) }
        emojis_found == Cardinality({ e \in DOMAIN emojis : Contains(emojis[e], msg) })
        patterns_found ==
            Cardinality({ p \in DOMAIN regex_patterns : re_search(regex_patterns[p], msg) })
    IN FracAdd(SumOver(found, KeywordWeight), Frac(2 * emojis_found + 3 * patterns_found, 1))

Digits == { "0", "1", "2", "3", "4", "5", "6", "7", "8", "9" }
IsLower(c) == \E i \in 1 .. Len(LowerLetters) : LowerLetters[i] = c
\* \w of a regular expression
IsWordChar(c) == IsUpper(c) \/ IsLower(c) \/ c \in Digits \/ c = "_"

\* the last position of the run of whitespace that starts at i
SpaceEnd(s, i) ==
    CHOOSE e \in i .. Len(s) :
        /\ \A k \in i .. e : s[k] \in Whitespace
        /\ e = Len(s) \/ s[e + 1] \notin Whitespace

\* Where the match of (\w+)\s+\1 that starts at i ends, 0 if there is none.  The
\* group takes the word characters from i up to the end of the word, since only
\* there whitespace can follow, and \s+ takes the whole whitespace, since the
\* group starts with a word character.
repetition_end(s, i) ==
    LET word_ends == { e \in i .. Len(s) - 1 :
                         s[e + 1] \in Whitespace /\ \A k \in i .. e : IsWordChar(s[k]) }
        Matched(e) ==
            LET w == SpaceEnd(s, e + 1)
                n == e - i + 1
            IN IF w + n <= Len(s) /\ SubSeq(s, w + 1, w + n) = SubSeq(s, i, e)
               THEN w + n
               ELSE 0
    IN IF word_ends = {} THEN 0 ELSE Let(CHOOSE e \in word_ends : TRUE, Matched)

\* len(re.findall(r"(\w+)\s+\1", s)): the matches found from the left, each search
\* starting where the match before ended
RECURSIVE findall_repetitions(_, _)
findall_repetitions(s, from) ==
    LET starts == { i \in from .. Len(s) : repetition_end(s, i) > 0 }
        Scan(i) == 1 + findall_repetitions(s, repetition_end(s, i) + 1)
    IN IF starts = {} THEN 0
       ELSE Let(CHOOSE i \in starts : \A j \in starts : i <= j, Scan)

RECURSIVE FracPower(_, _)
FracPower(a, n) == IF n = 0 THEN Frac(1, 1) ELSE FracMul(a, FracPower(a, n - 1))

apply_modifiers(message_lower, score, sentiment_type) ==
    LET msg == message_lower
        words == intensifiers[sentiment_type]
        present == Cardinality({ k \in DOMAIN words : Contains(words[k], msg) })
        intensified == FracMul(score, FracPower(Frac(3, 2), present))
        repetitions == findall_repetitions(msg, 1)
    IN IF repetitions > 0
       THEN FracMul(intensified, Frac(10 + 3 * repetitions, 10))
       ELSE intensified

has_negation(msg) == \E k \in DOMAIN negations : Contains(negations[k], msg)

FracAbs(a) == IF a[1] < 0 THEN << 0 - a[1], a[2] >> ELSE a

detect_urgency(msg, label, score) ==
    LET urgency_count ==
            Cardinality({ k \in DOMAIN urgency_keywords : Contains(urgency_keywords[k], msg) })
        caps_ratio ==
            IF msg # << >>
            THEN Frac(Cardinality({ i \in DOMAIN msg : IsUpper(msg[i]) }), Len(msg))
            ELSE Frac(0, 1)
        exclamation_count == Count(<< "!" >>, msg)
        base == FracAdd(Frac(urgency_count * 2, 1),
                        FracAdd(FracMul(caps_ratio, Frac(10, 1)), Frac(exclamation_count, 2)))
        urgency_score ==
            IF label = "negative" /\ FracLess(Frac(7, 10), FracAbs(score))
            THEN FracAdd(base, Frac(3, 1))
            ELSE base
    IN IF FracLeq(Frac(5, 1), urgency_score) THEN "high"
       ELSE IF FracLeq(Frac(2, 1), urgency_score) THEN "medium"
       ELSE "low"

\* The fields emotions and keywords_found are not modelled.
analyze_sentiment(msg) ==
    IF ~ msg.str
    THEN [label |-> "neutral", score |-> Frac(0, 1), confidence |-> Frac(0, 1),
          urgency |-> "low"]
    ELSE LET Analyzed(message_lower) ==
                 LET Labelled(raw) ==
                         LET positive_raw == raw[1]
                             negative_raw == raw[2]
                             neutral_raw == raw[3]
                             swapped == has_negation(message_lower)
                             positive_swapped == IF swapped THEN negative_raw ELSE positive_raw
                             negative_swapped == IF swapped THEN positive_raw ELSE negative_raw
                             total_score ==
                                 FracAdd(positive_swapped, FracAdd(negative_swapped, neutral_raw))
                             Normalised(x) ==
                                 IF FracLess(Frac(0, 1), total_score)
                                 THEN FracMul(x, Frac(total_score[2], total_score[1]))
                                 ELSE x
                             positive_score == Normalised(positive_swapped)
                             negative_score == Normalised(negative_swapped)
                             neutral_score == Normalised(neutral_raw)
                             label ==
                                 IF /\ FracLess(negative_score, positive_score)
                                    /\ FracLess(neutral_score, positive_score)
                                 THEN "positive"
                                 ELSE IF /\ FracLess(positive_score, negative_score)
                                         /\ FracLess(neutral_score, negative_score)
                                 THEN "negative"
                                 ELSE "neutral"
                             score ==
                                 IF label = "positive" THEN positive_score
                                 ELSE IF label = "negative"
                                 THEN FracMul(Frac(-1, 1), negative_score)
                                 ELSE Frac(0, 1)
                             FracMax(x, y) == IF FracLess(x, y) THEN y ELSE x
                         IN [label |-> label, score |-> score,
                             confidence |->
                                 FracMax(positive_score, FracMax(negative_score, neutral_score)),
                             urgency |-> detect_urgency(message_lower, label, score)]
                 IN Let(<< apply_modifiers(message_lower,
                               calculate_sentiment_score(message_lower, positive_patterns),
                               "positive"),
                           apply_modifiers(message_lower,
                               calculate_sentiment_score(message_lower, negative_patterns),
                               "negative"),
                           calculate_sentiment_score(message_lower, neutral_patterns) >>,
                        Labelled)
         IN Let(Lower(msg.text), Analyzed)

(***************************************************************************)
(* ComplaintDetector                                                       *)
(***************************************************************************)
complaint_keywords ==
    <<
    <<"n","u","l">>, <<"n","u","l","l","e">>, <<"h","o","r","r","i","b","l","e">>,
    <<"t","e","r","r","i","b","l","e">>, <<"c","a","t","a","s","t","r","o","p","h","e">>,
    <<"d","é","s","a","s","t","r","e">>, <<"m","a","u","v","a","i","s">>, <<"m","a","l">>,
    <<"m","a","l","h","e","u","r","e","u","x">>, <<"d","é","ç","u">>,
    <<"d","é","c","e","v","a","n","t">>, <<"f","r","u","s","t","r","a","n","t">>,
    <<"é","n","e","r","v","a","n","t">>, <<"a","g","a","c","é">>, <<"f","â","c","h","é">>,
    <<"e","n"," ","c","o","l","è","r","e">>, <<"f","u","r","i","e","u","x">>,
    <<"e","x","a","s","p","é","r","é">>, <<"d","é","g","o","û","t","é">>,
    <<"r","é","v","o","l","t","é">>, <<"s","c","a","n","d","a","l","i","s","é">>,
    <<"i","n","d","i","g","n","é">>, <<"o","u","t","r","é">>,
    <<"p","r","o","b","l","è","m","e">>, <<"b","u","g">>, <<"e","r","r","e","u","r">>,
    <<"d","y","s","f","o","n","c","t","i","o","n","n","e","m","e","n","t">>,
    <<"p","a","n","n","e">>, <<"p","l","a","i","n","t","e">>,
    <<"r","é","c","l","a","m","a","t","i","o","n">>,
    <<"r","é","m","u","n","é","r","a","t","i","o","n">>,
    <<"d","é","d","o","m","m","a","g","e","m","e","n","t">> >>

strong_keywords ==
    {
    <<"n","u","l">>, <<"h","o","r","r","i","b","l","e">>, <<"t","e","r","r","i","b","l","e">>,
    <<"c","a","t","a","s","t","r","o","p","h","e">> }

\* The list names some emojis more than once, and each entry counts.
negative_emojis ==
    <<
    <<"U+1F620">>, <<"U+1F621">>, <<"U+1F92C">>, <<"U+1F624">>, <<"U+1F61E">>, <<"U+1F622">>,
    <<"U+1F62D">>, <<"U+1F44E">>, <<"U+274C">>, <<"U+1F494">>, <<"U+1F612">>, <<"U+1F92E">>,
    <<"U+1F922">>, <<"U+1F624">>, <<"U+1F620">>, <<"U+1F621">>, <<"U+1F92C">>, <<"U+1F624">>,
    <<"U+1F61E">>, <<"U+1F622">>, <<"U+1F62D">> >>

complaint_patterns ==
    <<
    << <<"j","e">>, <<"s","u","i","s">>, <<"d","é","ç","u">> >>,
    << <<"c","'","e","s","t">>, <<"n","u","l">> >>,
    << <<"ç","a">>, <<"m","a","r","c","h","e">>, <<"p","a","s">> >>,
    << <<"s","e","r","v","i","c","e">>, <<"c","l","i","e","n","t">>, <<"n","u","l">> >>,
    << <<"f","r","e","e">>, <<"m","o","b","i","l","e">>, <<"n","u","l">> >>,
    << <<"j","a","m","a","i","s">>, <<"p","l","u","s">>, <<"f","r","e","e">> >>,
    << <<"j","e">>, <<"v","a","i","s">>, <<"c","h","a","n","g","e","r">> >>,
    << <<"r","é","s","i","l","i","e","r">>, <<"c","o","n","t","r","a","t">> >>,
    << <<"p","l","a","i","n","t","e">>, <<"c","o","n","t","r","e">> >>,
    << <<"r","é","c","l","a","m","a","t","i","o","n">>, <<"f","r","e","e">> >> >>

complaint_negations ==
    <<
    <<"p","a","s">>, <<"n","e">>, <<"n","'">>, <<"j","a","m","a","i","s">>,
    <<"r","i","e","n">>, <<"a","u","c","u","n">>, <<"n","u","l">>, <<"n","u","l","l","e">> >>

billing_keywords ==
    <<
    <<"f","a","c","t","u","r","e">>, <<"f","a","c","t","u","r","a","t","i","o","n">>,
    <<"p","a","i","e","m","e","n","t">>, <<"p","r","é","l","è","v","e","m","e","n","t">>,
    <<"c","o","û","t">>, <<"p","r","i","x">> >>
tech_keywords ==
    <<
    <<"p","r","o","b","l","è","m","e">>, <<"b","u","g">>, <<"e","r","r","e","u","r">>,
    <<"c","o","n","n","e","x","i","o","n">>, <<"r","é","s","e","a","u">>,
    <<"s","i","g","n","a","l">>, <<"w","i","f","i">> >>
service_keywords ==
    <<
    <<"s","e","r","v","i","c","e">>, <<"c","l","i","e","n","t">>,
    <<"s","u","p","p","o","r","t">>, <<"a","i","d","e">>, <<"r","é","p","o","n","s","e">>,
    <<"a","t","t","e","n","t","e">> >>
cancellation_keywords ==
    <<
    <<"r","é","s","i","l","i","e","r">>, <<"a","n","n","u","l","e","r">>,
    <<"a","r","r","ê","t","e","r">>, <<"c","h","a","n","g","e","r">>,
    <<"o","p","é","r","a","t","e","u","r">> >>

\* the sum of f over a set of positions, in whole numbers that are not negative:
\* position x is counted f[x] times
Sum(set, f) == Cardinality(UNION { {x} \X (1 .. f[x]) : x \in set })

count_negative_emojis(content) ==
    LET Occurrences == [e \in DOMAIN negative_emojis |-> Count(negative_emojis[e], content)]
    IN Sum(DOMAIN negative_emojis, Occurrences)

\* The score is counted in tenths: every term of it is a multiple of 0.1.
calculate_complaint_score(content_lower) ==
    LET content == content_lower
        found == { k \in DOMAIN complaint_keywords : Contains(complaint_keywords[k], content) }
        KeywordTenths ==
            [k \in DOMAIN complaint_keywords |->
                IF complaint_keywords[k] \in strong_keywords THEN 15 ELSE 10]
        patterns_found ==
            Cardinality({ p \in DOMAIN complaint_patterns :
                            re_search(complaint_patterns[p], content) })
        Repeated ==
            [k \in DOMAIN complaint_keywords |->
                LET count == Count(complaint_keywords[k], content)
                IN IF count > 1 THEN (count - 1) * 3 ELSE 0]
        capitals == Cardinality({ i \in DOMAIN content : IsUpper(content[i]) })
        shouted == content # << >> /\ 10 * capitals > 3 * Len(content)
    IN Sum(found, KeywordTenths)
       + 20 * patterns_found
       + 5 * count_negative_emojis(content)
       + Sum(DOMAIN complaint_keywords, Repeated)
       + (IF shouted THEN 10 ELSE 0)
       + 2 * Count(<< "!" >>, content)

find_complaint_keywords(content) ==
    { k \in DOMAIN complaint_keywords : Contains(complaint_keywords[k], content) }

find_complaint_patterns(content) ==
    { p \in DOMAIN complaint_patterns : re_search(complaint_patterns[p], content) }

\* in tenths, as the score
calculate_urgency(complaint_score, emoji_count, keyword_count, pattern_count) ==
    LET urgency_score ==
            complaint_score + 5 * emoji_count + 3 * keyword_count + 5 * pattern_count
    IN IF urgency_score >= 80 THEN "urgent"
       ELSE IF urgency_score >= 50 THEN "high"
       ELSE IF urgency_score >= 30 THEN "medium"
       ELSE "low"

AnyIn(keywords, content) == \E k \in DOMAIN keywords : Contains(keywords[k], content)

classify_complaint_type(content) ==
    IF AnyIn(billing_keywords, content) THEN "billing"
    ELSE IF AnyIn(tech_keywords, content) THEN "technical"
    ELSE IF AnyIn(service_keywords, content) THEN "customer_service"
    ELSE IF AnyIn(cancellation_keywords, content) THEN "cancellation"
    ELSE "general"

complaint_sentiment(complaint_score) ==
    IF complaint_score >= 50 THEN "very_negative"
    ELSE IF complaint_score >= 30 THEN "negative"
    ELSE IF complaint_score >= 10 THEN "slightly_negative"
    ELSE "neutral"

\* content.lower() raises on a value that is not a str, and the except branch
\* answers.  The lists keywords_found and patterns_found are not returned here.
detect_complaint(post) ==
    IF ~ post.str
    THEN [is_complaint |-> FALSE, complaint_score |-> 0, confidence |-> Frac(0, 1),
          urgency |-> "low", type |-> "unknown", negative_emoji_count |-> 0,
          has_negation |-> FALSE, sentiment |-> "neutral"]
    ELSE LET Detected(content_lower) ==
                 LET complaint_score == calculate_complaint_score(content_lower)
                 negative_emoji_count == count_negative_emojis(post.text)
             IN [is_complaint |-> complaint_score >= 30,
                 complaint_score |-> complaint_score,
                 confidence |-> FracMin(Frac(complaint_score, 100), Frac(1, 1)),
                 urgency |-> calculate_urgency(complaint_score, negative_emoji_count,
                                 Cardinality(find_complaint_keywords(content_lower)),
                                 Cardinality(find_complaint_patterns(content_lower))),
                 type |-> classify_complaint_type(content_lower),
                 negative_emoji_count |-> negative_emoji_count,
                 has_negation |-> AnyIn(complaint_negations, content_lower),
                 sentiment |-> complaint_sentiment(complaint_score)]
         IN Let(Lower(post.text), Detected)

(***************************************************************************)
(* The classifiers called on their own                                     *)
(***************************************************************************)
DetectIntent ==
    /\ intent = None
    /\ intent' = Some(detect_intent(message))
    /\ UNCHANGED << message, sentiment, needs_escalation, storeVars, serviceVars >>
    /\ UNCHANGED << now, linkVars, responderVars, observerVars, collectorVars,
                    pollObserverVars >>

AnalyzeSentiment ==
    /\ sentiment = None
    /\ sentiment' = Some(analyze_sentiment(message))
    /\ UNCHANGED << message, intent, needs_escalation, storeVars, serviceVars >>
    /\ UNCHANGED << now, linkVars, responderVars, observerVars, collectorVars,
                    pollObserverVars >>

DetectComplaint ==
    /\ complaint = None
    /\ complaint' = Some(detect_complaint(post_content))
    /\ UNCHANGED << post_content, classifierVars, storeVars, chatVars, generatorVars,
                    limiterVars >>
    /\ UNCHANGED << now, linkVars, responderVars, observerVars, collectorVars,
                    pollObserverVars >>

(***************************************************************************)
(* ChatService                                                             *)
(***************************************************************************)
\* The dict returned by the except branch of get_ai_response.
AI_FAILURE_RESPONSE ==
    [ response |->
        "Désolé, je rencontre un problème technique. Veuillez réessayer plus tard.",
      needs_escalation |-> TRUE,
      suggested_links |-> << >> ]

\* How the call to the AI engine can end: client.post raises (no connection, or
\* no answer within AI_TIMEOUT), raise_for_status raises on a 4xx or 5xx answer,
\* response.json() raises on a body that is not JSON, or the body is returned.
AiFailures == { "connect_error", "timeout", "http_error", "invalid_json" }
AiBodies ==
    { [response |-> r, needs_escalation |-> e, suggested_links |-> l] :
        r \in { "Votre facture est disponible dans votre espace client.",
                "Je transmets votre demande à un conseiller." },
        e \in BOOLEAN,
        l \in { << >>, << [title |-> "Espace client", url |-> "https://mobile.free.fr"] >> } }
AiOutcomes ==
    { [kind |-> k, body |-> None] : k \in AiFailures }
        \cup { [kind |-> "ok", body |-> Some(b)] : b \in AiBodies }

ChatMessages == { "Bonjour", "Ma facture est trop élevée", "Je veux résilier mon contrat" }

\* mutant: get_ai_response without its try/except
get_ai_response_unguarded(outcome) ==
    IF outcome.kind = "ok"
    THEN [raised |-> FALSE, value |-> outcome.body]
    ELSE [raised |-> TRUE, value |-> None]

\* raised says whether the call raises, value is None or <<the dict returned>>
get_ai_response(outcome) ==
    IF outcome.kind = "ok"
    THEN [raised |-> FALSE, value |-> outcome.body]
    ELSE [raised |-> FALSE, value |-> Some(AI_FAILURE_RESPONSE)]

\* save_message: the row added and committed
save_message(rows, content_, role) == Append(rows, [role |-> role, content |-> content_])

\* process_chat_request up to the conversation: the user and the conversation
\* are found or created.
ReceiveChatRequest(text, with_user_info) ==
    /\ chat_pc = "idle"
    /\ request' = Some([message |-> text, user_info |-> with_user_info])
    /\ conversation_status' = Some("active")
    /\ chat_pc' = "conversation"
    /\ UNCHANGED << db_messages, ai_call, ai_response, chat_response >>
    /\ UNCHANGED << classifierVars, storeVars, triageVars, generatorVars, limiterVars >>
    /\ UNCHANGED << now, linkVars, responderVars, observerVars, collectorVars,
                    pollObserverVars >>

SaveUserMessage ==
    /\ chat_pc = "conversation"
    /\ db_messages' = save_message(db_messages, request[1].message, "user")
    /\ chat_pc' = "user_saved"
    /\ UNCHANGED << request, conversation_status, ai_call, ai_response, chat_response >>
    /\ UNCHANGED << classifierVars, storeVars, triageVars, generatorVars, limiterVars >>
    /\ UNCHANGED << now, linkVars, responderVars, observerVars, collectorVars,
                    pollObserverVars >>

\* await self.get_ai_response(...); an exception leaving it leaves
\* process_chat_request as well.
GetAiResponse(outcome) ==
    /\ chat_pc = "user_saved"
    /\ ai_call' = Some(outcome.kind)
    /\ LET result == get_ai_response(outcome) IN
       IF result.raised
       THEN chat_pc' = "raised" /\ UNCHANGED ai_response
       ELSE chat_pc' = "answered" /\ ai_response' = result.value
    /\ UNCHANGED << request, conversation_status, db_messages, chat_response >>
    /\ UNCHANGED << classifierVars, storeVars, triageVars, generatorVars, limiterVars >>
    /\ UNCHANGED << now, linkVars, responderVars, observerVars, collectorVars,
                    pollObserverVars >>

SaveAssistantMessage ==
    /\ chat_pc = "answered"
    /\ db_messages' = save_message(db_messages, ai_response[1].response, "assistant")
    /\ chat_pc' = "assistant_saved"
    /\ UNCHANGED << request, conversation_status, ai_call, ai_response, chat_response >>
    /\ UNCHANGED << classifierVars, storeVars, triageVars, generatorVars, limiterVars >>
    /\ UNCHANGED << now, linkVars, responderVars, observerVars, collectorVars,
                    pollObserverVars >>

\* The status is set to escalated when the answer asks for it, and the
\* ChatResponse is returned.
ReturnChatResponse ==
    /\ chat_pc = "assistant_saved"
    /\ conversation_status' =
           IF Get(ai_response[1], "needs_escalation", FALSE)
           THEN Some("escalated")
           ELSE conversation_status
    /\ chat_response' =
           Some([ message |-> db_messages[Len(db_messages) - 1],
                  response |-> db_messages[Len(db_messages)],
                  needs_escalation |-> Get(ai_response[1], "needs_escalation", FALSE),
                  suggested_links |-> Get(ai_response[1], "suggested_links", << >>) ])
    /\ chat_pc' = "done"
    /\ UNCHANGED << request, db_messages, ai_call, ai_response >>
    /\ UNCHANGED << classifierVars, storeVars, triageVars, generatorVars, limiterVars >>
    /\ UNCHANGED << now, linkVars, responderVars, observerVars, collectorVars,
                    pollObserverVars >>

(***************************************************************************)
(* ResponseGenerator                                                       *)
(***************************************************************************)
\* the text without its leading and trailing whitespace
Strip(s) ==
    IF \A i \in DOMAIN s : s[i] \in Whitespace
    THEN << >>
    ELSE LET first == CHOOSE i \in DOMAIN s :
                          s[i] \notin Whitespace /\ \A j \in 1 .. i - 1 : s[j] \in Whitespace
             last == CHOOSE i \in DOMAIN s :
                         s[i] \notin Whitespace /\ \A j \in i + 1 .. Len(s) : s[j] \in Whitespace
         IN SubSeq(s, first, last)

\* s.split('\n')
RECURSIVE SplitLines(_)
SplitLines(s) ==
    LET Cut(text) ==
            IF \A i \in DOMAIN text : text[i] # "\n"
            THEN << text >>
            ELSE LET i == CHOOSE k \in DOMAIN text :
                              text[k] = "\n" /\ \A j \in 1 .. k - 1 : text[j] # "\n"
                 IN << SubSeq(text, 1, i - 1) >> \o SplitLines(SubSeq(text, i + 1, Len(text)))
    IN Let(s, Cut)

\* '\n'.join(lines)
RECURSIVE JoinLines(_)
JoinLines(lines) ==
    IF lines = << >> THEN << >>
    ELSE IF Len(lines) = 1 THEN lines[1]
    ELSE lines[1] \o << "\n" >> \o JoinLines(Tail(lines))

\* the loop of _clean_response: a stripped line is kept when it is not empty and
\* was not seen before
RECURSIVE cleaned_lines(_, _)
cleaned_lines(lines, seen) ==
    IF lines = << >> THEN << >>
    ELSE LET Kept(line) ==
                 IF line # << >> /\ line \notin seen
                 THEN << line >> \o cleaned_lines(Tail(lines), seen \cup {line})
                 ELSE cleaned_lines(Tail(lines), seen)
         IN Let(Strip(Head(lines)), Kept)

MAX_RESPONSE_LENGTH == 500

clean_response(response) ==
    LET Limited(text) ==
            IF Len(text) > MAX_RESPONSE_LENGTH
            THEN SubSeq(text, 1, MAX_RESPONSE_LENGTH) \o << ".", ".", "." >>
            ELSE text
    IN Let(JoinLines(cleaned_lines(SplitLines(response), {})), Limited)

\* The fixed texts of _generate_fallback_response.
responses ==
    [ facturation |->
        <<"P","o","u","r"," ","t","o","u","t","e"," ","q","u","e","s","t","i","o","n"," ","d",
          "e"," ","f","a","c","t","u","r","a","t","i","o","n",","," ","j","e"," ","v","o","u",
          "s"," ","i","n","v","i","t","e"," ","à"," ","c","o","n","s","u","l","t","e","r"," ",
          "v","o","t","r","e"," ","e","s","p","a","c","e"," ","c","l","i","e","n","t"," ","F",
          "r","e","e"," ","M","o","b","i","l","e"," ","o","u"," ","à"," ","c","o","n","t","a",
          "c","t","e","r"," ","n","o","t","r","e"," ","s","e","r","v","i","c","e"," ","c","l",
          "i","e","n","t",".">>,
      technique |->
        <<"P","o","u","r"," ","r","é","s","o","u","d","r","e"," ","v","o","t","r","e"," ","p",
          "r","o","b","l","è","m","e"," ","t","e","c","h","n","i","q","u","e",","," ","j","e",
          " ","v","o","u","s"," ","r","e","c","o","m","m","a","n","d","e"," ","d","e"," ","r",
          "e","d","é","m","a","r","r","e","r"," ","v","o","t","r","e"," ","a","p","p","a","r",
          "e","i","l"," ","e","t"," ","d","e"," ","v","é","r","i","f","i","e","r"," ","l","e",
          "s"," ","p","a","r","a","m","è","t","r","e","s"," ","r","é","s","e","a","u",".">>,
      forfait |->
        <<"J","e"," ","p","e","u","x"," ","v","o","u","s"," ","a","i","d","e","r"," ","à"," ",
          "c","h","o","i","s","i","r"," ","l","e"," ","f","o","r","f","a","i","t"," ","q","u",
          "i"," ","v","o","u","s"," ","c","o","n","v","i","e","n","t"," ","l","e"," ","m","i",
          "e","u","x","."," ","C","o","n","s","u","l","t","e","z"," ","n","o","t","r","e"," ",
          "s","i","t","e"," ","w","e","b"," ","p","o","u","r"," ","v","o","i","r"," ","t","o",
          "u","t","e","s"," ","l","e","s"," ","o","p","t","i","o","n","s"," ","d","i","s","p",
          "o","n","i","b","l","e","s",".">>,
      resiliation |->
        <<"S","i"," ","v","o","u","s"," ","s","o","u","h","a","i","t","e","z"," ","r","é","s",
          "i","l","i","e","r"," ","v","o","t","r","e"," ","c","o","n","t","r","a","t",","," ",
          "v","o","u","s"," ","p","o","u","v","e","z"," ","l","e"," ","f","a","i","r","e"," ",
          "d","e","p","u","i","s"," ","v","o","t","r","e"," ","e","s","p","a","c","e"," ","c",
          "l","i","e","n","t"," ","o","u"," ","e","n"," ","c","o","n","t","a","c","t","a","n",
          "t"," ","n","o","t","r","e"," ","s","e","r","v","i","c","e"," ","c","l","i","e","n",
          "t",".">>,
      general |->
        <<"J","e"," ","s","u","i","s"," ","l","à"," ","p","o","u","r"," ","v","o","u","s"," ",
          "a","i","d","e","r","."," ","P","o","u","v","e","z","-","v","o","u","s"," ","m","e",
          " ","d","o","n","n","e","r"," ","p","l","u","s"," ","d","e"," ","d","é","t","a","i",
          "l","s"," ","s","u","r"," ","v","o","t","r","e"," ","d","e","m","a","n","d","e"," ",
          "?">> ]

FRUSTRATION_PREFIX ==
    <<"J","e"," ","c","o","m","p","r","e","n","d","s"," ","v","o","t","r","e"," ","f","r","u",
      "s","t","r","a","t","i","o","n","."," ">>

\* {} of Python
EmptyDict == << >>

generate_fallback_response(intent_, sentiment_) ==
    LET category == Get(intent_, "category", "general")
        base_response ==
            IF category \in DOMAIN responses THEN responses[category] ELSE responses.general
    IN IF Get(sentiment_, "label", "none") = "negative"
       THEN FRUSTRATION_PREFIX \o base_response
       ELSE base_response

\* What the pipeline does when it is called: it raises, or it returns the
\* prompt followed by a text.
LlmTexts ==
    {
    <<" "," ","V","o","u","s"," ","p","o","u","v","e","z"," ","c","o","n","s","u","l","t","e",
      "r"," ","v","o","t","r","e"," ","e","s","p","a","c","e"," ","c","l","i","e","n","t",".",
      "\n">>,
    <<"B","o","n","j","o","u","r",".","\n","J","e"," ","r","e","g","a","r","d","e"," ","v","o",
      "t","r","e"," ","d","o","s","s","i","e","r",".","\n","B","o","n","j","o","u","r",".">> }
LlmOutcomes == { None } \cup { Some(t) : t \in LlmTexts }

\* _generate_text: generated_text[len(prompt):].strip() is cleaned; when the
\* pipeline raises, the fallback is asked with two empty dicts.
generate_text(llm_outcome) ==
    IF llm_outcome = None
    THEN generate_fallback_response(EmptyDict, EmptyDict)
    ELSE clean_response(Strip(llm_outcome[1]))

\* mutant: get_relevant_context without the filter on the type
get_relevant_context_unfiltered(docs, embs, metas, query, context_type, encodeOk) ==
    LET relevant_docs == search(docs, embs, metas, query, None, None, encodeOk)
    IN [ i \in 1 .. Len(relevant_docs) |->
           [ title |-> Get(relevant_docs[i].metadata, "title", "Document"),
             content |-> relevant_docs[i].content ] ]

\* get_relevant_context: the parts of the context, << >> for the empty string.
\* The cut of the text at MAX_CONTEXT_LENGTH is not modelled, the documents being
\* names here.
get_relevant_context(docs, embs, metas, query, context_type, encodeOk) ==
    LET filter_metadata == Some([type |-> context_type])
        relevant_docs == search(docs, embs, metas, query, None, filter_metadata, encodeOk)
    IN [ i \in 1 .. Len(relevant_docs) |->
           [ title |-> Get(relevant_docs[i].metadata, "title", "Document"),
             content |-> relevant_docs[i].content ] ]

\* The titles of the links of _generate_suggested_links.
suggested_links_of ==
    [ facturation |-> << "Espace Client", "FAQ Facturation" >>,
      technique |-> << "Guide de Dépannage", "Contact Support" >>,
      forfait |-> << "Nos Forfaits", "Comparateur" >>,
      resiliation |-> << "Procédure de Résiliation", "Espace Client" >>,
      general |-> << "FAQ Générale", "Contact" >> ]

generate_suggested_links(intent_) ==
    LET category == Get(intent_, "category", "general")
    IN IF category \in DOMAIN suggested_links_of \ {"general"}
       THEN suggested_links_of[category]
       ELSE suggested_links_of.general

\* The dict returned by the except branch of generate_response.
GENERATE_FAILURE_RESPONSE ==
    [ response |->
        <<"D","é","s","o","l","é",","," ","j","e"," ","r","e","n","c","o","n","t","r","e"," ",
          "u","n"," ","p","r","o","b","l","è","m","e"," ","t","e","c","h","n","i","q","u","e",
          "."," ","V","e","u","i","l","l","e","z"," ","r","é","e","s","s","a","y","e","r"," ",
          "p","l","u","s"," ","t","a","r","d",".">>,
      intent |-> [category |-> "error", confidence |-> Frac(0, 1)],
      sentiment |-> [label |-> "neutral", score |-> Frac(0, 1)],
      needs_escalation |-> TRUE,
      suggested_links |-> << >>,
      context_used |-> FALSE ]

\* a fraction in whole hundredths, rounded down: x < k / 100 exactly when
\* Hundredths(x) < k
Hundredths(x) == (100 * x[1]) \div x[2]

\* generate_response.  query is the text the embedding model is given for the
\* message, encodeOk is false when retrieval fails, llm_outcome is what the
\* pipeline does if it is called.  The prompt is read by the pipeline only.
\* _check_escalation_needed raises on a message that is not a str, and the
\* except branch answers.
generate_response(msg, docs, embs, metas, pipeline, query, encodeOk, llm_outcome) ==
    LET Answered(intent_) ==
            LET Felt(sentiment_) ==
                    LET context ==
                            get_relevant_context(docs, embs, metas, query, intent_.category,
                                                 encodeOk)
                        response_text ==
                            IF pipeline
                            THEN generate_text(llm_outcome)
                            ELSE generate_fallback_response(intent_, sentiment_)
                    IN IF ~ msg.str
                       THEN GENERATE_FAILURE_RESPONSE
                       ELSE [ response |-> response_text,
                              intent |-> intent_,
                              sentiment |-> sentiment_,
                              needs_escalation |->
                                  check_escalation_needed(msg.text,
                                      [intent_ EXCEPT !.confidence = Hundredths(@)],
                                      [sentiment_ EXCEPT !.score = Hundredths(@)]),
                              suggested_links |-> generate_suggested_links(intent_),
                              context_used |-> context # << >> ]
            IN Let(analyze_sentiment(msg), Felt)
    IN Let(detect_intent(msg), Answered)

\* One call of generate_response on the message.  The inputs are kept with the
\* dict returned.
GenerateResponse(query, encodeOk) ==
    /\ reply = None
    /\ \E llm_outcome \in IF llm_pipeline THEN LlmOutcomes ELSE { None } :
          reply' = Some([ result |-> generate_response(message, documents, embeddings,
                                        metadata, llm_pipeline, query, encodeOk, llm_outcome),
                          completion |-> IF ~ llm_pipeline THEN "unavailable"
                                         ELSE IF llm_outcome = None THEN "failed"
                                         ELSE "generated",
                          generated |-> llm_outcome,
                          query |-> query,
                          retrieval_failed |-> ~ encodeOk ])
    /\ UNCHANGED << llm_pipeline, classifierVars, storeVars, triageVars, chatVars,
                    limiterVars >>
    /\ UNCHANGED << now, linkVars, responderVars, observerVars, collectorVars,
                    pollObserverVars >>

(***************************************************************************)
(* RedisClient.set_rate_limit                                              *)
(***************************************************************************)
\* The calls that returned True since the window opened: a call that returns
\* True a window or more after the one that opened it opens the next window.
AdmittedNext(t) ==
    IF admitted.start # None /\ t - admitted.start[1] < RateWindow
    THEN [admitted EXCEPT !.count = @ + 1]
    ELSE [start |-> Some(t), count |-> 1]

\* current = await self.redis.get(key), and the branch taken on it: the call
\* goes on to its setex, to its incr, or returns False.
RateLimitGet(k, limit) ==
    /\ limit_pc[k] = "idle"
    /\ limit_pc' = [limit_pc EXCEPT ![k] =
                      IF redis_key = None THEN "setex"
                      ELSE IF redis_key[1].value < limit THEN "incr"
                      ELSE "idle"]
    /\ UNCHANGED << redis_time, redis_key, admitted >>
    /\ UNCHANGED << classifierVars, storeVars, triageVars, chatVars, generatorVars >>
    /\ UNCHANGED << now, linkVars, responderVars, observerVars, collectorVars,
                    pollObserverVars >>

\* await self.redis.setex(key, window, 1); return True
RateLimitSetex(k, window) ==
    /\ limit_pc[k] = "setex"
    /\ redis_key' = Some([value |-> 1, expire_at |-> Some(redis_time + window)])
    /\ admitted' = AdmittedNext(redis_time)
    /\ limit_pc' = [limit_pc EXCEPT ![k] = "idle"]
    /\ UNCHANGED redis_time
    /\ UNCHANGED << classifierVars, storeVars, triageVars, chatVars, generatorVars >>
    /\ UNCHANGED << now, linkVars, responderVars, observerVars, collectorVars,
                    pollObserverVars >>

\* await self.redis.incr(key); return True.  INCR on a key that is gone sets it
\* to 1 without expiry, and keeps the expiry of a key that is there.
RateLimitIncr(k) ==
    /\ limit_pc[k] = "incr"
    /\ redis_key' = IF redis_key = None
                    THEN Some([value |-> 1, expire_at |-> None])
                    ELSE Some([redis_key[1] EXCEPT !.value = @ + 1])
    /\ admitted' = AdmittedNext(redis_time)
    /\ limit_pc' = [limit_pc EXCEPT ![k] = "idle"]
    /\ UNCHANGED redis_time
    /\ UNCHANGED << classifierVars, storeVars, triageVars, chatVars, generatorVars >>
    /\ UNCHANGED << now, linkVars, responderVars, observerVars, collectorVars,
                    pollObserverVars >>

\* A second passes in the key store; a key whose expiry is reached is removed.
RedisTick ==
    /\ redis_time < MaxRateTime
    /\ redis_time' = redis_time + 1
    /\ redis_key' = IF /\ redis_key # None
                       /\ redis_key[1].expire_at # None
                       /\ redis_key[1].expire_at[1] <= redis_time + 1
                    THEN None
                    ELSE redis_key
    /\ UNCHANGED << limit_pc, admitted >>
    /\ UNCHANGED << classifierVars, storeVars, triageVars, chatVars, generatorVars >>
    /\ UNCHANGED << now, linkVars, responderVars, observerVars, collectorVars,
                    pollObserverVars >>

(***************************************************************************)
(* Specifications                                                          *)
(***************************************************************************)
InitSocial ==
    /\ now = StartTime
    /\ links = {}
    /\ validated = [i \in TokenIds |-> 0]
    /\ lastValidation = None
    /\ response_count = 0
    /\ last_response_time = None
    /\ response_history = << >>
    /\ rpc = [k \in Tasks |-> "idle"]
    /\ rpost = [k \in Tasks |-> None]
    /\ lastCall = [seq |-> 0, outcome |-> "none", complaint |-> FALSE]
    /\ deliveredAt = None
    /\ observer = [start |-> None, count |-> 0]
    /\ minGap = RESPONSE_DELAY
    /\ is_running = FALSE
    /\ processed_posts = {}
    /\ stats = [total_posts_processed |-> 0, complaints_detected |-> 0,
                responses_sent |-> 0, start_time |-> None]
    /\ cpc = "init"
    /\ feed = "hashtags"
    /\ hidx = 1
    /\ queue = << >>
    /\ cycles = 0
    /\ triaged = [p \in PostIds |-> 0]
    /\ replies = [p \in PostIds |-> 0]
    /\ failed = {}
    /\ skipped = FALSE
    /\ stopped = FALSE
    /\ afterStop = [triaged |-> FALSE, fetched |-> FALSE]

Str(text) == [str |-> TRUE, text |-> text]
NotAStr == [str |-> FALSE, text |-> << >>]

\* VectorStore.__init__: the embedding model is loaded and the lists are empty.
InitStore ==
    /\ documents = << >>
    /\ embeddings = << >>
    /\ metadata = << >>
    /\ pending = {}
    /\ hits = None
    /\ ingested = << >>

\* No post handed to the ComplaintDetector yet.
InitTriage ==
    /\ post_content = Str(<< >>)
    /\ complaint = None

\* No chat request received yet.
InitChat ==
    /\ chat_pc = "idle"
    /\ request = None
    /\ conversation_status = None
    /\ db_messages = << >>
    /\ ai_call = None
    /\ ai_response = None
    /\ chat_response = None

\* ResponseGenerator.__init__ with a model that loads; no call yet.
InitGenerator ==
    /\ llm_pipeline = TRUE
    /\ reply = None

\* No key in the store, no call of set_rate_limit in progress.
InitLimiter ==
    /\ redis_time = 0
    /\ redis_key = None
    /\ limit_pc = [k \in Tasks |-> "idle"]
    /\ admitted = [start |-> None, count |-> 0]

InitService == InitTriage /\ InitChat /\ InitGenerator /\ InitLimiter

\* No call on the AI engine yet.
InitEngine ==
    /\ message = Str(<< >>)
    /\ intent = None
    /\ sentiment = None
    /\ needs_escalation = None
    /\ InitStore
    /\ InitService

Init == InitSocial /\ InitEngine

\* The social monitor: start_monitoring on the event loop, and stop_monitoring.
Next ==
    \/ StartMonitoring
    \/ MonitorHashtags
    \/ MonitorMentions
    \/ MonitoringEnds
    \/ \E posts \in FeedLists, d \in {0, RESPONSE_DELAY} : FetchPosts(posts, d)
    \/ \E kind \in PostKinds, linkOk \in BOOLEAN : ProcessNextPost(kind, linkOk)
    \/ \E ok \in BOOLEAN : ReplySendReturns(ok)
    \/ NextHashtagOrSleep
    \/ SleepReturns
    \/ StopMonitoring

Spec == Init /\ [][Next]_vars

\* The poll loop followed beyond the horizon of the clock: past the bounds a
\* sleep returns and a feed answers without the time being counted.
SleepReturnsLater ==
    /\ cpc = "sleep"
    /\ cycles >= MaxCycles \/ now + PROCESSING_DELAY > MaxTime
    /\ cpc' = "while"
    /\ UNCHANGED << now, is_running, processed_posts, stats, feed, hidx, queue, cycles,
                    linkVars, responderVars, observerVars, pollObserverVars, engineVars >>

FetchPostsLater(posts) ==
    /\ cpc = "fetch"
    /\ now > PollHorizon
    /\ queue' = posts
    /\ cpc' = "posts"
    /\ afterStop' = IF stopped THEN [afterStop EXCEPT !.fetched = TRUE] ELSE afterStop
    /\ UNCHANGED << now, is_running, processed_posts, stats, feed, hidx, cycles,
                    linkVars, responderVars, observerVars, triaged, replies, failed, skipped,
                    stopped, engineVars >>

\* The steps of start_monitoring itself: the event loop resumes the coroutine
\* whenever what it awaits is ready, and every feed and every send answers.
MonitorStep ==
    \/ StartMonitoring
    \/ MonitorHashtags
    \/ MonitorMentions
    \/ MonitoringEnds
    \/ \E posts \in FeedLists, d \in {0, RESPONSE_DELAY} : FetchPosts(posts, d)
    \/ \E posts \in FeedLists : FetchPostsLater(posts)
    \/ \E kind \in PostKinds, linkOk \in BOOLEAN : ProcessNextPost(kind, linkOk)
    \/ \E ok \in BOOLEAN : ReplySendReturns(ok)
    \/ NextHashtagOrSleep
    \/ SleepReturns
    \/ SleepReturnsLater

NextMonitor ==
    \/ MonitorStep
    \/ StopMonitoring

\* start_monitoring keeps running; stop_monitoring may never be called.
SpecMonitor == Init /\ [][NextMonitor]_vars /\ WF_vars(MonitorStep)

\* The link issuer and the frontend that validates the tokens it receives.
NextLink ==
    \/ \E user \in Users, i \in TokenIds : GenerateContactLink(user, 1, i)
    \/ \E token \in { l.token : l \in links } \cup MalformedTokens : ValidateToken(token)
    \/ LinkTick

SpecLink == Init /\ [][NextLink]_vars

\* One caller that awaits each process_post call before the next one.
NextResponder ==
    \/ \E isComplaint \in BOOLEAN, linkOk \in BOOLEAN : ProcessPost(1, isComplaint, linkOk)
    \/ \E ok \in BOOLEAN : SendReturns(1, ok)
    \/ Tick

SpecResponder == Init /\ [][NextResponder]_vars

\* Several process_post coroutines on the one event loop.
NextConcurrent ==
    \/ \E k \in Tasks, isComplaint \in BOOLEAN, linkOk \in BOOLEAN :
         ProcessPost(k, isComplaint, linkOk)
    \/ \E k \in Tasks, ok \in BOOLEAN : SendReturns(k, ok)
    \/ Tick

SpecConcurrent == Init /\ [][NextConcurrent]_vars

\* _check_escalation_needed on its own: the three arguments are drawn at the start.
EscalationMessages ==
    {
    << >>,
    <<"B","o","n","j","o","u","r",","," ","u","n","e"," ","q","u","e","s","t","i","o","n"," ","s","u","r"," ","m","o","n"," ","f","o","r","f","a","i","t">>,
    <<"r","é","s","i","l","i","a","t","i","o","n">>,
    <<"J","e"," ","d","é","p","o","s","e"," ","u","n","e"," ","p","l","a","i","n","t","e">>,
    <<"P","L","A","I","N","T","E"," ","!">>,
    <<"J","e"," ","v","e","u","x"," ","u","n","e"," ","r","é","m","u","n","é","r","a","t","i","o","n">>,
    <<"M","a"," ","R","é","c","l","a","m","a","t","i","o","n"," ","e","s","t"," ","r","e","s","t","é","e"," ","s","a","n","s"," ","r","é","p","o","n","s","e">>,
    <<"s","e","r","v","i","c","e"," ","j","u","r","i","d","i","q","u","e">>,
    <<"M","o","n"," ","a","v","o","c","a","t"," ","v","o","u","s"," ","é","c","r","i","r","a">>,
    <<"J","e"," ","s","a","i","s","i","s"," ","l","e"," ","m","é","d","i","a","t","e","u","r">>,
    <<"J","e"," ","s","a","i","s","i","s"," ","l","'","A","R","C","E","P">>,
    <<"j","e"," ","s","a","i","s","i","s"," ","l","'","a","r","c","e","p">>,
    <<"R","é","s","i","l","i","a","t","i","o","n"," ","i","m","m","é","d","i","a","t","e">>,
    <<"J","e"," ","d","e","m","a","n","d","e"," ","u","n"," ","d","é","d","o","m","m","a","g","e","m","e","n","t">> }
EscalationIntents ==
    { [category |-> c, confidence |-> k] :
        c \in {"resiliation", "technique", "facturation", "general"},
        k \in {0, ESCALATION_CONFIDENCE - 1, ESCALATION_CONFIDENCE, 100} }
EscalationSentiments ==
    { [label |-> IF x < 0 THEN "negative" ELSE IF x > 0 THEN "positive" ELSE "neutral",
       score |-> x] :
        x \in {-100, ESCALATION_SCORE - 1, ESCALATION_SCORE, ESCALATION_SCORE + 1, 0, 100} }

InitEscalation ==
    /\ InitSocial
    /\ message \in { Str(m) : m \in EscalationMessages }
    /\ intent \in { Some(i) : i \in EscalationIntents }
    /\ sentiment \in { Some(x) : x \in EscalationSentiments }
    /\ needs_escalation = None
    /\ InitStore
    /\ InitService

NextEscalation == CheckEscalationNeeded

SpecEscalation == InitEscalation /\ [][NextEscalation]_vars

\* The vector store behind the handlers of the AI engine API.
NextStore ==
    \/ \E kind \in {"ingest", "reset", "search"} : ReceiveRequest(kind)
    \/ \E reset \in BOOLEAN, batch \in Batches, conv_batch \in ConvBatches, encodeOk \in BOOLEAN :
         IngestDocuments(reset, batch, conv_batch, encodeOk)
    \/ ResetVectorStore
    \/ \E query \in Queries, top_k \in TopKs, filter_metadata \in Filters, encodeOk \in BOOLEAN :
         Search(query, top_k, filter_metadata, encodeOk)

SpecStore == Init /\ [][NextStore]_vars

\* The three classifiers, each called once on an argument drawn at the start.
ClassifierMessages ==
    {
    << >>,
    <<"J","e"," ","v","e","u","x"," ","r","é","s","i","l","i","e","r"," ","m","o","n"," ","c","o","n","t","r","a","t">>,
    <<"C","'","e","s","t"," ","n","u","l",","," ","ç","a"," ","n","e"," ","m","a","r","c","h","e"," ","p","a","s"," ","d","u"," ","t","o","u","t">>,
    <<"C","o","m","b","i","e","n"," ","c","o","û","t","e"," ","m","o","n"," ","f","o","r","f","a","i","t"," ","?">>,
    <<"L","e"," ","W","i","F","i"," ","n","e"," ","f","o","n","c","t","i","o","n","n","e"," ","p","a","s">>,
    <<"J","e"," ","v","e","u","x"," ","c","h","a","n","g","e","r"," ","d","e"," ","f","o","r","f","a","i","t">>,
    <<"C","o","m","m","e","n","t"," ","a","r","r","ê","t","e","r"," ","m","o","n"," ","a","b","o","n","n","e","m","e","n","t"," ","?">>,
    <<"M","e","r","c","i"," ","b","e","a","u","c","o","u","p"," ","p","o","u","r"," ","v","o","t","r","e"," ","a","i","d","e"," ","!">>,
    <<"S","e","r","v","i","c","e"," ","p","a","r","f","a","i","t",","," ","j","e"," ","s","u","i","s"," ","t","r","è","s"," ","s","a","t","i","s","f","a","i","t">>,
    <<"J","e"," ","s","u","i","s"," ","t","r","è","s"," ","d","é","ç","u"," ","d","e"," ","c","e"," ","s","e","r","v","i","c","e">>,
    <<"C","'","e","s","t"," ","u","n","e"," ","c","a","t","a","s","t","r","o","p","h","e",","," ","j","e"," ","s","u","i","s"," ","f","u","r","i","e","u","x">>,
    <<"J","'","a","i"," ","u","n","e"," ","q","u","e","s","t","i","o","n"," ","s","u","r"," ","m","o","n"," ","f","o","r","f","a","i","t">>,
    <<"P","o","u","v","e","z","-","v","o","u","s"," ","m","'","a","i","d","e","r"," ","?">>,
    <<"U","R","G","E","N","T"," ","!","!","!"," ","C","'","e","s","t"," ","v","r","a","i","m","e","n","t"," ","v","r","a","i","m","e","n","t"," ","h","o","r","r","i","b","l","e"," ","U+1F621">>,
    <<"P","r","o","b","l","è","m","e"," ","g","r","a","v","e",","," ","p","a","n","n","e"," ","t","o","t","a","l","e",","," ","e","r","r","e","u","r"," ","c","r","i","t","i","q","u","e">>,
    <<"r","é","s","i","l","i","e","r"," ","r","é","s","i","l","i","a","t","i","o","n"," ","a","n","n","u","l","e","r"," ","a","r","r","ê","t","e","r"," ","s","t","o","p","p","e","r"," ","q","u","i","t","t","e","r">>,
    <<"f","a","c","t","u","r","e"," ","m","o","n","t","a","n","t"," ","p","r","i","x"," ","f","o","r","f","a","i","t",","," ","d","é","p","a","s","s","e","m","e","n","t"," ","d","a","t","a",","," ","c","o","n","s","o","m","m","a","t","i","o","n"," ","i","n","t","e","r","n","e","t"," ","4","g"," ","5","g"," ","s","m","s">>,
    <<"w","i","f","i"," ","w","i","f","i">>,
    <<"r","é","s","i","l","i","e","r","r","é","s","i","l","i","a","t","i","o","n","a","n","n","u","l","e","r","a","r","r","ê","t","e","r","s","t","o","p","p","e","r","q","u","i","t","t","e","r","p","a","r","t","i","r","c","h","a","n","g","e","r","o","p","é","r","a","t","e","u","r","c","o","n","c","u","r","r","e","n","t","d","é","p","a","r","t","f","i","n","t","e","r","m","i","n","e","r","c","l","ô","t","u","r","e","r","f","e","r","m","e","r","r","é","s","i","l","i","e","r","c","o","n","t","r","a","t","a","r","r","ê","t","e","r","f","o","r","f","a","i","t","c","h","a","n","g","e","r","o","p","é","r","a","t","e","u","r","p","a","r","t","i","r","f","r","e","e","a","n","n","u","l","e","r","a","b","o","n","n","e","m","e","n","t">>,
    <<"J","e"," ","s","u","i","s"," ","v","r","a","i","m","e","n","t"," ","t","r","è","s"," ","d","é","ç","u",","," ","p","o","u","v","e","z","-","v","o","u","s"," ","m","'","a","i","d","e","r">>,
    <<"J","E"," ","S","U","I","S"," ","B","L","O","Q","U","E">>,
    <<"r","é","s","i","l","i","e","r","r","é","s","i","l","i","a","t","i","o","n","a","n","n","u","l","e","r","a","r","r","ê","t","e","r","s","t","o","p","p","e","r","q","u","i","t","t","e","r"," ","l","i","v","r","a","i","s","o","n","l","i","v","r","e","r","e","x","p","é","d","i","t","i","o","n","c","o","l","i","s","s","u","i","v","i","t","r","a","c","k","i","n","g">> }
ComplaintContents ==
    {
    << >>,
    <<"F","r","e","e"," ","M","o","b","i","l","e"," ","c","'","e","s","t"," ","n","u","l",","," ","ç","a"," ","m","a","r","c","h","e"," ","j","a","m","a","i","s"," ","!">>,
    <<"J","e"," ","s","u","i","s"," ","d","é","ç","u"," ","d","e"," ","F","r","e","e"," ","M","o","b","i","l","e",","," ","s","e","r","v","i","c","e"," ","c","l","i","e","n","t"," ","i","n","e","x","i","s","t","a","n","t">>,
    <<"M","a"," ","f","a","c","t","u","r","e"," ","F","r","e","e"," ","M","o","b","i","l","e"," ","e","s","t"," ","t","r","o","p"," ","c","h","è","r","e",","," ","j","e"," ","v","a","i","s"," ","r","é","s","i","l","i","e","r">>,
    <<"P","r","o","b","l","è","m","e"," ","d","e"," ","c","o","n","n","e","x","i","o","n"," ","F","r","e","e"," ","M","o","b","i","l","e"," ","d","e","p","u","i","s"," ","3"," ","j","o","u","r","s">>,
    <<"N","U","L"," ","N","U","L"," ","N","U","L"," ","!","!","!"," ","U+1F621","U+1F621">>,
    <<"B","o","n","j","o","u","r"," ","à"," ","t","o","u","s">> }

InitClassify ==
    /\ InitSocial
    /\ message \in { Str(m) : m \in ClassifierMessages } \cup { NotAStr }
    /\ intent = None
    /\ sentiment = None
    /\ needs_escalation = None
    /\ InitStore
    /\ post_content \in { Str(c) : c \in ComplaintContents } \cup { NotAStr }
    /\ complaint = None
    /\ InitChat
    /\ InitGenerator
    /\ InitLimiter

NextClassify ==
    \/ DetectIntent
    \/ AnalyzeSentiment
    \/ DetectComplaint

SpecClassify == InitClassify /\ [][NextClassify]_vars

\* One chat request through ChatService.process_chat_request.
NextChat ==
    \/ \E text \in ChatMessages, with_user_info \in BOOLEAN :
         ReceiveChatRequest(text, with_user_info)
    \/ SaveUserMessage
    \/ \E outcome \in AiOutcomes : GetAiResponse(outcome)
    \/ SaveAssistantMessage
    \/ ReturnChatResponse

SpecChat == Init /\ [][NextChat]_vars

\* generate_response called once; the message, the pipeline and the index are
\* drawn at the start.
GenerateMessages ==
    {
    <<"B","o","n","j","o","u","r">>,
    <<"J","e"," ","s","u","i","s"," ","t","r","è","s"," ","d","é","ç","u"," ","d","e"," ","c","e"," ","s","e","r","v","i","c","e">>,
    <<"r","é","s","i","l","i","e","r"," ","r","é","s","i","l","i","a","t","i","o","n"," ","a","n","n","u","l","e","r"," ","a","r","r","ê","t","e","r"," ","s","t","o","p","p","e","r"," ","q","u","i","t","t","e","r">>,
    <<"f","a","c","t","u","r","e"," ","m","o","n","t","a","n","t"," ","p","r","i","x"," ","f","o","r","f","a","i","t",","," ","d","é","p","a","s","s","e","m","e","n","t"," ","d","a","t","a",","," ","c","o","n","s","o","m","m","a","t","i","o","n"," ","i","n","t","e","r","n","e","t"," ","4","g"," ","5","g"," ","s","m","s">>,
    <<"J","e"," ","d","é","p","o","s","e"," ","u","n","e"," ","p","l","a","i","n","t","e">>,
    <<"M","o","n"," ","r","é","s","e","a","u"," ","n","e"," ","m","a","r","c","h","e"," ","p","a","s",","," ","c","'","e","s","t"," ","n","u","l">> }

FilledStore == add_documents(<< >>, << >>, << >>, Listed({1, 2}), TRUE)

InitGenerate ==
    /\ InitSocial
    /\ message \in { Str(m) : m \in GenerateMessages } \cup { NotAStr }
    /\ intent = None
    /\ sentiment = None
    /\ needs_escalation = None
    /\ \/ InitStore
       \/ /\ documents = FilledStore.documents
          /\ embeddings = FilledStore.embeddings
          /\ metadata = FilledStore.metadata
          /\ pending = {}
          /\ hits = None
          /\ ingested = << Listed({1, 2}) >>
    /\ InitTriage
    /\ InitChat
    /\ llm_pipeline \in BOOLEAN
    /\ reply = None
    /\ InitLimiter

NextGenerate ==
    \E query \in Queries, encodeOk \in BOOLEAN : GenerateResponse(query, encodeOk)

SpecGenerate == InitGenerate /\ [][NextGenerate]_vars

\* Concurrent requests of send_message on one rate-limit key.
NextLimiter ==
    \/ \E k \in Tasks : RateLimitGet(k, RateLimit)
    \/ \E k \in Tasks : RateLimitSetex(k, RateWindow)
    \/ \E k \in Tasks : RateLimitIncr(k)
    \/ RedisTick

SpecLimiter == Init /\ [][NextLimiter]_vars

(***************************************************************************)
(* Properties                                                              *)
(***************************************************************************)
CallStep == lastCall'.seq # lastCall.seq

LinkOf(token) == { l \in links : l.token = token }

\* C1: a token issued by generate_contact_link is valid exactly once: at most
\* one validate_token call on it returns true, and a call that returned true
\* left the link marked as used.
C1_ValidExactlyOnce ==
    \A l \in links :
        /\ validated[l.token.id] <= 1
        /\ validated[l.token.id] = 1 => l.used

\* C2: a validate_token call made on an issued token at or after its
\* expires_at (24 hours after issuance) returns false.
C2_ExpiredIsInvalid ==
    lastValidation # None =>
        \A l \in LinkOf(lastValidation[1].token) :
            lastValidation[1].at >= l.expires_at => ~ lastValidation[1].result

\* C3: the number of replies delivered within one rolling hour never exceeds
\* MAX_RESPONSES_PER_HOUR, and a process_post call made when that many were
\* delivered in the open window is rejected by the rate limit.
C3_CapPerWindow ==
    /\ [](observer.count <= MAX_RESPONSES_PER_HOUR)
    /\ [][ ( /\ CallStep
             /\ observer.start # None
             /\ now - observer.start[1] < HourSeconds
             /\ observer.count >= MAX_RESPONSES_PER_HOUR )
           => lastCall'.outcome = "rate_limited" ]_vars

\* C4: with concurrent process_post calls the replies delivered in one window
\* still never exceed MAX_RESPONSES_PER_HOUR and no two replies are delivered
\* less than RESPONSE_DELAY seconds apart.
C4_AtomicCheckAndCount ==
    /\ response_count <= MAX_RESPONSES_PER_HOUR
    /\ observer.count <= MAX_RESPONSES_PER_HOUR
    /\ minGap >= RESPONSE_DELAY

\* C5: a post whose id is in processed_posts is not triaged again (no further
\* _process_single_post, hence no detect_complaint, for it) and no post
\* receives more than one reply, whatever feeds return it and how often.
C5_ProcessedNeverRetriaged ==
    /\ [](\A p \in PostIds : replies[p] <= 1)
    /\ [][ \A p \in processed_posts : triaged'[p] = triaged[p] ]_vars

\* A post that received its reply came back in a later poll cycle and was skipped.
C5_Witness ==
    /\ skipped
    /\ cycles >= 1
    /\ \E p \in processed_posts : replies[p] = 1 /\ triaged[p] = 1

\* C6: a process_post call on a complaint post made one hour or more after
\* the last delivered reply (every counted send has aged out of the window
\* and RESPONSE_DELAY has passed) is not rejected by the rate limit.
C6_WindowSlides ==
    [][ ( /\ CallStep
          /\ lastCall'.complaint
          /\ deliveredAt # None
          /\ now - deliveredAt[1] >= HourSeconds )
        => lastCall'.outcome # "rate_limited" ]_vars

\* C7: two successive replies are at least RESPONSE_DELAY seconds apart; a
\* call made less than RESPONSE_DELAY after last_response_time is rejected,
\* and a call made when no reply was sent yet is not rejected.
C7_MinimumDelay ==
    /\ [](minGap >= RESPONSE_DELAY)
    /\ [][ CallStep =>
            /\ ( last_response_time # None
                 /\ now - last_response_time[1] < RESPONSE_DELAY )
               => lastCall'.outcome = "rate_limited"
            /\ deliveredAt = None => lastCall'.outcome # "rate_limited" ]_vars

\* Two replies were delivered and a later call came too early and was rejected.
C7_Witness ==
    /\ Len(response_history) >= 2
    /\ response_count < MAX_RESPONSES_PER_HOUR
    /\ lastCall.outcome = "rate_limited"

\* C8: a post whose detection or reply delivery failed is triaged again on
\* later poll cycles, at most MAX_RETRIES more times, and is given up (marked
\* as processed) only when these retries are used up.
C8_BoundedRetry ==
    \A p \in PostIds :
        /\ triaged[p] <= 1 + MAX_RETRIES
        /\ (p \in failed /\ p \in processed_posts) => triaged[p] = 1 + MAX_RETRIES

\* The cap of C9, taken below the number of distinct post ids of the feeds.
ProcessedCap == NumPosts - 1

\* C9: the size of processed_posts never exceeds a fixed cap.
C9_ProcessedBounded ==
    Cardinality(processed_posts) <= ProcessedCap

\* C10: once stop_monitoring has returned, no further post is triaged and no
\* further feed is fetched.
C10_StopBetweenUnits ==
    stopped => (~ afterStop.triaged /\ ~ afterStop.fetched)

\* The message holds one of the escalation keywords, whatever the case of
\* the letters on either side.
MentionsEscalationKeyword(msg) ==
    \E k \in 1 .. Len(escalation_keywords) : Contains(Lower(escalation_keywords[k]), Lower(msg))

\* C11: _check_escalation_needed returns true exactly when the message holds
\* one of the nine escalation keywords, or the sentiment score is below -0.7,
\* or the intent is resiliation or technique with a confidence below 0.5.
C11_EscalationExact ==
    needs_escalation # None =>
        needs_escalation[1] =
            ( \/ MentionsEscalationKeyword(message.text)
              \/ sentiment[1].score < ESCALATION_SCORE
              \/ ( /\ intent[1].category \in {"resiliation", "technique"}
                   /\ intent[1].confidence < ESCALATION_CONFIDENCE ) )

\* C12: every hit returned by search has a similarity of at least
\* RAG_SIMILARITY_THRESHOLD, and a search on an index without documents (never
\* filled, or reset) returns the empty list.
C12_HitsAboveThreshold ==
    hits # None =>
        /\ \A i \in DOMAIN hits[1].results :
              hits[1].results[i].similarity >= RAG_SIMILARITY_THRESHOLD
        /\ hits[1].seen[1] = 0 => hits[1].results = << >>

\* A search without filter and cut returned hits and left out a stored
\* document, which was below the threshold.
C12_Witness ==
    /\ hits # None
    /\ hits[1].filter = None /\ hits[1].top_k = None
    /\ hits[1].results # << >>
    /\ Len(hits[1].results) < hits[1].seen[1]

\* The stored documents search may return for a query and a filter.
Eligible(query, filter_metadata) ==
    { i \in DOMAIN documents :
        /\ Similarities(query)[i] >= RAG_SIMILARITY_THRESHOLD
        /\ filter_metadata # None => matches_filter(metadata[i], filter_metadata[1]) }

\* C13: search returns, by descending similarity, the top_k most similar of
\* the documents that match the filter and reach the threshold: as many hits
\* as there are such documents, up to top_k.
C13_TopKOfFiltered ==
    [][ (hits' # hits /\ hits' # None /\ hits'[1].encoded) =>
          LET call == hits'[1]
              k == IF call.top_k = None THEN RAG_TOP_K ELSE call.top_k[1]
              eligible == Eligible(call.query, call.filter)
          IN /\ Len(call.results) = Min(k, Cardinality(eligible))
             /\ \A i, j \in DOMAIN call.results :
                   i < j => call.results[i].similarity >= call.results[j].similarity
             /\ \A i \in DOMAIN call.results :
                   \E d \in eligible :
                      /\ documents[d] = call.results[i].content
                      /\ Similarities(call.query)[d] = call.results[i].similarity
       ]_vars

RECURSIVE Contents(_)
Contents(batches) ==
    IF batches = << >>
    THEN << >>
    ELSE [i \in 1 .. Len(Head(batches)) |-> Head(batches)[i].content]
            \o Contents(Tail(batches))

\* C14: the three lists of the index have the same length and hold whole
\* batches only, in every state a handler can observe; so has every index a
\* search has read.
C14_SearchSeesWholeIndex ==
    /\ Len(documents) = Len(embeddings)
    /\ Len(documents) = Len(metadata)
    /\ documents = Contents(ingested)
    /\ hits # None => ( /\ hits[1].seen[1] = hits[1].seen[2]
                        /\ hits[1].seen[1] = hits[1].seen[3] )

\* A search was handled while an ingestion request was waiting, on an index
\* filled by an earlier ingestion.
C14_Witness ==
    /\ hits # None
    /\ hits[1].during
    /\ hits[1].results # << >>

\* C15: the confidence returned by detect_intent lies in [0, 1] for every
\* message: the empty string, a message that matches every keyword and pattern
\* of a category and gets the short-message bonus, and a value that is not a
\* str, on which the classifier fails internally.
C15_ConfidenceInUnitInterval ==
    intent # None =>
        /\ FracLeq(Frac(0, 1), intent[1].confidence)
        /\ FracLeq(intent[1].confidence, Frac(1, 1))

\* detect_intent answered a message of fewer than ten words that holds every
\* keyword and every pattern of resiliation: the score before the cap is 1.2,
\* the confidence returned is 1.
C15_Witness ==
    /\ intent # None
    /\ message.str
    /\ intent[1] = [category |-> "resiliation", confidence |-> Frac(1, 1)]
    /\ WordCount(message.text) < SHORT_MESSAGE_WORDS
    /\ LET Uncapped(message_lower) ==
               calculate_intent_score_uncapped(message_lower, intent_patterns.resiliation)
       IN Let(Lower(message.text), Uncapped) = Frac(6, 5)

\* get_intent_examples, resiliation (line 258)
ResiliationExample ==
    <<"J","e"," ","v","e","u","x"," ","r","é","s","i","l","i","e","r"," ","m","o","n"," ","c","o","n","t","r","a","t">>

\* C16: detect_intent("Je veux résilier mon contrat") returns the category
\* resiliation.
C16_ResiliationExample ==
    (intent # None /\ message = Str(ResiliationExample)) =>
        intent[1].category = "resiliation"

\* get_sentiment_examples, negative (line 252)
NegativeExample ==
    <<"C","'","e","s","t"," ","n","u","l",","," ","ç","a"," ","n","e"," ","m","a","r","c","h","e"," ","p","a","s"," ","d","u"," ","t","o","u","t">>

\* C17: analyze_sentiment("C'est nul, ça ne marche pas du tout") returns the
\* label negative and an urgency of medium or high.
C17_NegativeExample ==
    (sentiment # None /\ message = Str(NegativeExample)) =>
        /\ sentiment[1].label = "negative"
        /\ sentiment[1].urgency \in {"medium", "high"}

\* get_complaint_examples (line 243)
ComplaintExample ==
    <<"F","r","e","e"," ","M","o","b","i","l","e"," ","c","'","e","s","t"," ","n","u","l",","," ","ç","a"," ","m","a","r","c","h","e"," ","j","a","m","a","i","s"," ","!">>

\* C18: detect_complaint on "Free Mobile c'est nul, ça marche jamais !" returns
\* is_complaint = true and type = technical.
C18_ComplaintExample ==
    (complaint # None /\ post_content = Str(ComplaintExample)) =>
        /\ complaint[1].is_complaint
        /\ complaint[1].type = "technical"

\* C19: get_ai_response never raises, and when the call to the AI engine fails
\* (exception, timeout, HTTP error status) it returns the fixed apology with
\* needs_escalation = true and no suggested link; process_chat_request then
\* stores the user message and the assistant message and returns a response.
C19_AiFailureAnswered ==
    /\ chat_pc # "raised"
    /\ (ai_call # None /\ ai_call[1] \in AiFailures) =>
          /\ ai_response = Some(AI_FAILURE_RESPONSE)
          /\ ai_response[1].needs_escalation /\ ai_response[1].suggested_links = << >>
          /\ chat_pc = "done" =>
                /\ db_messages =
                       << [role |-> "user", content |-> request[1].message],
                          [role |-> "assistant", content |-> AI_FAILURE_RESPONSE.response] >>
                /\ chat_response # None
                /\ chat_response[1].response.content = AI_FAILURE_RESPONSE.response
                /\ chat_response[1].needs_escalation
                /\ chat_response[1].suggested_links = << >>

\* process_chat_request has returned after a call to the AI engine that timed
\* out: both messages are stored.
C19_Witness ==
    /\ chat_pc = "done"
    /\ ai_call = Some("timeout")
    /\ Len(db_messages) = 2
    /\ chat_response # None

\* C20: when no pipeline is loaded or the pipeline fails during the call,
\* generate_response returns the fixed text of the detected intent category,
\* the same in both cases; when retrieval fails the context is empty and
\* context_used is false; generate_response does not raise.
C20_FallbackTemplate ==
    (reply # None /\ reply[1].result.intent.category # "error") =>
        /\ reply[1].completion \in {"unavailable", "failed"} =>
              reply[1].result.response =
                  generate_fallback_response(reply[1].result.intent, reply[1].result.sentiment)
        /\ reply[1].retrieval_failed => ~ reply[1].result.context_used

\* The score apply_modifiers would return if the intensifiers of the polarity
\* counted once, however many of them the message holds.
intensified_once(message_lower, score, sentiment_type) ==
    LET words == intensifiers[sentiment_type]
        present == \E k \in DOMAIN words : Contains(words[k], message_lower)
        intensified == IF present THEN FracMul(score, Frac(3, 2)) ELSE score
        repetitions == findall_repetitions(message_lower, 1)
    IN IF repetitions > 0
       THEN FracMul(intensified, Frac(10 + 3 * repetitions, 10))
       ELSE intensified

\* C21: in analyze_sentiment the intensifiers multiply the raw score of a
\* polarity by 1.5 exactly once per call when at least one intensifier of that
\* polarity is in the message, whatever their number, and leave it unchanged
\* when there is none.
C21_IntensifiedOnce ==
    (sentiment # None /\ message.str) =>
        LET Once(message_lower) ==
                \A t \in {"positive", "negative"} :
                    LET patterns == IF t = "positive" THEN positive_patterns
                                    ELSE negative_patterns
                        OnceFor(raw) ==
                            apply_modifiers(message_lower, raw, t)
                                = intensified_once(message_lower, raw, t)
                    IN Let(calculate_sentiment_score(message_lower, patterns), OnceFor)
        IN Let(Lower(message.text), Once)

\* The level of the urgency score 2 x keywords + 10 x caps_ratio + 0.5 x
\* exclamation marks (+ 3 for an intense negative), the share of uppercase
\* characters being that of the text as received.
urgency_as_received(text, label, score) ==
    LET Level(message_lower) ==
            LET urgency_count ==
                    Cardinality({ k \in DOMAIN urgency_keywords :
                                    Contains(urgency_keywords[k], message_lower) })
                caps_ratio ==
                    IF text # << >>
                    THEN Frac(Cardinality({ i \in DOMAIN text : IsUpper(text[i]) }), Len(text))
                    ELSE Frac(0, 1)
                exclamation_count == Count(<< "!" >>, text)
                base == FracAdd(Frac(urgency_count * 2, 1),
                                FracAdd(FracMul(caps_ratio, Frac(10, 1)),
                                        Frac(exclamation_count, 2)))
                urgency_score ==
                    IF label = "negative" /\ FracLess(Frac(7, 10), FracAbs(score))
                    THEN FracAdd(base, Frac(3, 1))
                    ELSE base
            IN IF FracLeq(Frac(5, 1), urgency_score) THEN "high"
               ELSE IF FracLeq(Frac(2, 1), urgency_score) THEN "medium"
               ELSE "low"
    IN Let(Lower(text), Level)

\* C22: the urgency of analyze_sentiment is the level of 2 x urgency keywords
\* + 10 x caps_ratio + 0.5 x exclamation marks (+ 3 when the label is negative
\* and |score| > 0.7), caps_ratio being the share of uppercase characters of
\* the message as received; a message of which at least half of the characters
\* are uppercase is rated high.
C22_UrgencyAsReceived ==
    (sentiment # None /\ message.str) =>
        /\ sentiment[1].urgency
             = urgency_as_received(message.text, sentiment[1].label, sentiment[1].score)
        /\ ( /\ message.text # << >>
             /\ 2 * Cardinality({ i \in DOMAIN message.text : IsUpper(message.text[i]) })
                  >= Len(message.text) )
           => sentiment[1].urgency = "high"

\* the score of every intent for a message as received
scores_of(text) == Let(Lower(text), intent_scores)

\* the intents whose score is the greatest
maximal_intents(scores) ==
    { i \in DOMAIN scores : \A j \in DOMAIN scores : FracLeq(scores[j], scores[i]) }

\* C23: when the greatest score is at least 0.3, detect_intent returns the first
\* category in declaration order among those that reach it; when it is below
\* 0.3, all scores being 0 included, it returns general with confidence 0.5.
C23_FirstMaximalIntent ==
    (intent # None /\ message.str) =>
        LET Chosen(scores) ==
                LET maximal == maximal_intents(scores)
                    first == CHOOSE i \in maximal : \A j \in maximal : i <= j
                IN IF FracLeq(CONFIDENCE_THRESHOLD, scores[first])
                   THEN intent[1].category = intent_names[first]
                   ELSE /\ intent[1].category = default_intent
                        /\ intent[1].confidence = Frac(1, 2)
        IN Let(scores_of(message.text), Chosen)

\* two categories share the greatest score, which reaches the threshold, and
\* the first of them was returned
C23_Witness ==
    /\ intent # None
    /\ message.str
    /\ LET Tied(scores) ==
               LET maximal == maximal_intents(scores)
               IN /\ Cardinality(maximal) >= 2
                  /\ \A i \in maximal : FracLeq(CONFIDENCE_THRESHOLD, scores[i])
                  /\ \E i \in maximal :
                        /\ \A j \in maximal : i <= j
                        /\ intent[1].category = intent_names[i]
       IN Let(scores_of(message.text), Tied)

\* a send of process_post returned and the reply was delivered
DeliveredStep ==
    /\ \E k \in Tasks : rpc[k] = "sending" /\ rpc'[k] = "idle"
    /\ observer' # observer

\* C24: in process_post, response_count, last_response_time and
\* response_history are left unchanged by a call rejected by the rate limit, a
\* call on a post that is not a complaint, a failed link issue and a failed
\* send, and a delivered reply increments response_count by exactly 1.
C24_CountsOnlyDelivered ==
    [][ IF DeliveredStep
        THEN response_count' = response_count + 1
        ELSE UNCHANGED << response_count, last_response_time, response_history >> ]_vars

\* the stripped lines that are not empty, a line being dropped only when it
\* equals the line kept just before it
RECURSIVE collapsed_lines(_, _)
collapsed_lines(lines, previous) ==
    IF lines = << >> THEN << >>
    ELSE LET Kept(line) ==
                 IF line # << >> /\ Some(line) # previous
                 THEN << line >> \o collapsed_lines(Tail(lines), Some(line))
                 ELSE collapsed_lines(Tail(lines), previous)
         IN Let(Strip(Head(lines)), Kept)

consecutive_only(response) ==
    LET Limited(text) ==
            IF Len(text) > MAX_RESPONSE_LENGTH
            THEN SubSeq(text, 1, MAX_RESPONSE_LENGTH) \o << ".", ".", "." >>
            ELSE text
    IN Let(JoinLines(collapsed_lines(SplitLines(response), None)), Limited)

\* C25: _clean_response collapses only consecutive identical lines, a line that
\* occurs again after a different line being kept and the order of the kept
\* lines unchanged, and cuts the result to at most 500 characters followed by
\* the ellipsis.
C25_ConsecutiveOnly ==
    ( /\ reply # None
      /\ reply[1].completion = "generated"
      /\ reply[1].result.intent.category # "error" ) =>
        reply[1].result.response = consecutive_only(Strip(reply[1].generated[1]))

\* C28: generate_response gives the detected intent category as the 'type'
\* filter of the retrieval, so a stored document enters the context only if
\* its type is the name of the category; the index being filled by the
\* document processor (types faq, documentation, conversation), the context is
\* empty and context_used is false for every message, however similar the
\* stored documents are.
C28_TypeFilterEmptiesContext ==
    (reply # None /\ reply[1].result.intent.category # "error") =>
        /\ ~ reply[1].result.context_used
        /\ LET Typed(found) ==
                   \A i \in DOMAIN found :
                       found[i].metadata.type = reply[1].result.intent.category
           IN Let(search(documents, embeddings, metadata, reply[1].query, None,
                         Some([type |-> reply[1].result.intent.category]), TRUE),
                  Typed)

\* a call answered with an index that holds documents similar enough to the
\* message, the retrieval having worked
C28_Witness ==
    /\ reply # None
    /\ reply[1].result.intent.category # "error"
    /\ ~ reply[1].retrieval_failed
    /\ search(documents, embeddings, metadata, reply[1].query, None, None, TRUE) # << >>
    /\ ~ reply[1].result.context_used

\* C27: a complaint post whose process_post call was rejected by the rate
\* limit, no reply being sent, is still added to processed_posts by
\* _process_posts; a post of processed_posts stays there, is not triaged again
\* and receives no reply, so the rate-limited post is dropped.
C27_RateLimitedDropped ==
    /\ [][ ( /\ CallStep
             /\ cpc = "posts"
             /\ lastCall'.outcome = "rate_limited" )
           => /\ Head(queue) \in processed_posts'
              /\ replies'[Head(queue)] = 0 ]_vars
    /\ [][ \A p \in processed_posts :
             /\ p \in processed_posts'
             /\ triaged'[p] = triaged[p]
             /\ replies'[p] = replies[p] ]_vars

\* The last process_post call was rejected by the rate limit; its post is
\* marked without a reply and a later poll cycle has begun.
C27_Witness ==
    /\ lastCall.outcome = "rate_limited"
    /\ cycles >= 1
    /\ \E p \in processed_posts :
          /\ replies[p] = 0
          /\ triaged[p] = 1
          /\ \A q \in PostIds \ {p} : replies[q] = 1

\* C26: hashtag and mention monitoring being both enabled, start_monitoring
\* polls both feeds while the monitor runs: unless stop_monitoring is called,
\* the mentions are eventually fetched and passed to _process_posts.
C26_MentionsPolled ==
    <>(stopped \/ (feed = "mentions" /\ cpc = "posts"))

\* C29: set_rate_limit admits at most `limit` calls on a key within one
\* window, for every interleaving of concurrent callers.
C29_AtMostLimitPerWindow ==
    admitted.count <= RateLimit

\* C30: the counter key written by set_rate_limit always carries an expiry of
\* one window, whatever the timing of the expiry relative to the read and the
\* increment, so that no key is blocked for ever.
C30_KeyCarriesExpiry ==
    redis_key # None =>
        /\ redis_key[1].expire_at # None
        /\ redis_key[1].expire_at[1] <= redis_time + RateWindow

====
